---- MODULE Spec2Model ----
(***************************************************************************)
(* File/folder hierarchy and storage accounting of the storage backend     *)
(* (backend/routes/files.js).  Nodes are the File documents, store is the  *)
(* uploads directory, stats the StorageStats documents.  Every request     *)
(* handler is one action; `last` records the request and its response.     *)
(* File documents that no request of a run names (an account's older       *)
(* uploads) are kept as a count, bulk, instead of one by one.  now is the   *)
(* server clock, inflight the requests being served concurrently and       *)
(* script the client's side: the requests it sends one after another, or   *)
(* the public links it holds.                                              *)
(***************************************************************************)
EXTENDS Integers, Sequences, FiniteSets, TLC

VARIABLES nodes, nextId, store, stats, last, budget, bulk, now, inflight, script

vars == <<nodes, nextId, store, stats, last, budget, bulk, now, inflight, script>>

-----------------------------------------------------------------------------
(* Bounds of the model *)

MaxNodes == 4
MaxObjects == 3
MaxBatch == 2
MaxSteps == 3
MaxQuotaSteps == 2
MaxTicks == 1
MaxLifeSteps == 3
MaxShareSteps == 4
MaxInflight == 2
MaxAccessSteps == 2
MaxFolderSteps == 2
MaxBatchSteps == 2
MaxMoveSteps == 4
MaxDownloadSteps == 2
MaxEmptySteps == 4
MaxLinkSteps == 4
MaxAccountSteps == 2

-----------------------------------------------------------------------------
(* Values *)

Null == 0
MissingId == Null - 1

Users == {"u1", "u2"}
\* The account whose requests are explored; the other one owns nodes only.
Requesters == {"u1"}

\* Names are sequences of tokens; " " is a blank, "(Copy)" the copy suffix.
RawNames == {<<>>, <<" ">>, <<"a">>, <<" ", "a">>, <<"b">>}
FileNames == {<<"a">>, <<"b">>}
DirNames == {<<"a">>, <<"b">>}
NoName == <<>>

\* Byte counts are kept as (MiB, bytes) pairs: 16106127360 does not fit the
\* checker's integers.  value = m * MiB + b, 0 <= b < MiB.
MiB == 1048576
QuotaCeilingMiB == 15360
MaxFileSizeMiB == 100

Bytes(m, b) == [m |-> m, b |-> b]
Zero == Bytes(0, 0)
QuotaCeiling == Bytes(QuotaCeilingMiB, 0)
MaxFileSize == Bytes(MaxFileSizeMiB, 0)

Plus(x, y) ==
  LET s == x.b + y.b
  IN  [m |-> x.m + y.m + (s \div MiB), b |-> s % MiB]

Times(x, n) ==
  LET s == x.b * n
  IN  [m |-> x.m * n + (s \div MiB), b |-> s % MiB]

\* A comparison that also rejects an upload that exactly fills the quota.
GreaterOrEqual(x, y) == x.m > y.m \/ (x.m = y.m /\ x.b >= y.b)

Greater(x, y) == x.m > y.m \/ (x.m = y.m /\ x.b > y.b)

\* Number of maximal files that fit under the ceiling, and the room they leave.
BallastFiles == QuotaCeilingMiB \div MaxFileSizeMiB
Room == Bytes(QuotaCeilingMiB - BallastFiles * MaxFileSizeMiB, 0)
Sizes == {Room, Bytes(Room.m - 40, 0)}

NullPath == [area |-> "none", key |-> 0]

-----------------------------------------------------------------------------
(* Pure helpers *)

RECURSIVE TrimLeft(_)
TrimLeft(s) == IF s # <<>> /\ Head(s) = " " THEN TrimLeft(Tail(s)) ELSE s

RECURSIVE TrimRight(_)
TrimRight(s) ==
  IF s # <<>> /\ s[Len(s)] = " " THEN TrimRight(SubSeq(s, 1, Len(s) - 1)) ELSE s

Trim(s) == TrimRight(TrimLeft(s))

Exists(ns, i) == i \in DOMAIN ns

\* array.splice(k, 1)
Splice(s, k) == [j \in 1..(Len(s) - 1) |-> IF j < k THEN s[j] ELSE s[j + 1]]

\* fs.existsSync(p): false for null
ExistsSync(st, p) == p \in st

\* An unlink that leaves the object in place.
UnlinkNothing(st, p) == st

\* fs.unlinkSync(p) on an existing object
Unlink(st, p) == st \ {p}

\* A path multer has not used: the file name carries Date.now() and a random
\* suffix.  Keys still named by a node are not issued again.
FreshKey(ns, st) ==
  LET used == {p.key : p \in st} \cup {ns[i].path.key : i \in DOMAIN ns}
  IN  CHOOSE k \in 1..(Cardinality(used) + 1) : k \notin used

(* StorageStats.updateUserStats: recompute over the non-trashed nodes *)
NoStats == [present |-> FALSE, usedStorage |-> Zero, totalFiles |-> 0, totalFolders |-> 0]

LiveNodes(ns, u) == {i \in DOMAIN ns : ns[i].owner = u /\ ~ns[i].inTrash}

RECURSIVE SumBySize(_, _, _)
SumBySize(ns, S, sizes) ==
  IF sizes = {} THEN Zero
  ELSE LET z == CHOOSE z \in sizes : TRUE
       IN  Plus(Times(z, Cardinality({i \in S : ns[i].size = z})),
                SumBySize(ns, S, sizes \ {z}))

SumSizes(ns, S) == SumBySize(ns, S, {ns[i].size : i \in S})

\* The account whose older uploads are counted in bulk: files of the largest
\* size multer accepts, at root, not trashed, under names no request uses.
BulkOwner == "u1"
BulkOf(u) == IF u = BulkOwner THEN bulk ELSE 0

Recompute(ns, u) ==
  LET files == {i \in LiveNodes(ns, u) : ~ns[i].isFolder}
      folders == {i \in LiveNodes(ns, u) : ns[i].isFolder}
  IN  [present |-> TRUE,
       usedStorage |-> Plus(SumSizes(ns, files), Times(MaxFileSize, BulkOf(u))),
       totalFiles |-> Cardinality(files) + BulkOf(u),
       totalFolders |-> Cardinality(folders)]

UpdateUserStats(st, ns, u) == [st EXCEPT ![u] = Recompute(ns, u)]

\* Ids a request can name: every id issued so far and one never issued.
ReqIds == (1..(nextId - 1)) \cup {MissingId}
ParentInputs == ReqIds \cup {Null}

-----------------------------------------------------------------------------
(* Dates and the File schema defaults *)

\* A Date: days and milliseconds since the start of the run; null is NoDate.
RetentionDays == 30
Date(day, ms) == [day |-> day, ms |-> ms]
NoDate == Date(Null - 1, 0)
StartDate == Date(0, 0)
AddDays(d, n) == Date(d.day + n, d.ms)
AddMs(d, n) == Date(d.day, d.ms + n)

\* Fields a new File document gets when the handler does not set them.
FileDefaults ==
  [inTrash |-> FALSE, deletedAt |-> NoDate, permanentDeleteAt |-> NoDate,
   sharedWith |-> <<>>, isPublic |-> FALSE, publicUrl |-> Null]

-----------------------------------------------------------------------------
(* POST /folders *)

FolderNode(u, name, parent) ==
  [owner |-> u, name |-> name, originalName |-> NoName, isFolder |-> TRUE,
   size |-> Zero, path |-> NullPath, parentFolder |-> parent] @@ FileDefaults

\* A lookup that ignores the parent.
ExistingFoldersAnywhere(ns, u, name, parent) ==
  {i \in DOMAIN ns : ns[i].owner = u /\ ns[i].name = name /\ ns[i].isFolder /\ ~ns[i].inTrash}

\* File.findOne({ userId, name, isFolder: true, parentFolder, inTrash: false })
ExistingFolders(ns, u, name, parent) ==
  {i \in DOMAIN ns : /\ ns[i].owner = u
                     /\ ns[i].name = name
                     /\ ns[i].isFolder
                     /\ ns[i].parentFolder = parent
                     /\ ~ns[i].inTrash}

CreateFolder(u, raw, parent) ==
  LET req == [op |-> "createFolder"]
  IN
  IF raw = <<>> \/ Trim(raw) = <<>>
  THEN /\ last' = req @@ [result |-> "ValidationError", id |-> Null]
       /\ UNCHANGED <<nodes, nextId, store, stats>>
  ELSE IF ExistingFolders(nodes, u, Trim(raw), parent) # {}
  THEN /\ last' = req @@ [result |-> "ConflictError", id |-> Null]
       /\ UNCHANGED <<nodes, nextId, store, stats>>
  ELSE /\ nextId <= MaxNodes
       /\ nodes' = nodes @@ (nextId :> FolderNode(u, Trim(raw), parent))
       /\ nextId' = nextId + 1
       /\ last' = req @@ [result |-> "Created", id |-> nextId]
       /\ UNCHANGED <<store, stats>>

-----------------------------------------------------------------------------
(* POST /upload *)

FileNode(u, oname, size, path, parent) ==
  [owner |-> u, name |-> oname, originalName |-> oname, isFolder |-> FALSE,
   size |-> size, path |-> path, parentFolder |-> parent] @@ FileDefaults

\* A parent lookup without the inTrash filter (as the move target lookup).
ParentFolderDocAnyTrash(ns, u, parent) ==
  /\ Exists(ns, parent)
  /\ ns[parent].owner = u
  /\ ns[parent].isFolder

ParentFolderDoc(ns, u, parent) ==
  /\ Exists(ns, parent)
  /\ ns[parent].owner = u
  /\ ns[parent].isFolder
  /\ ~ns[parent].inTrash

\* A duplicate lookup that does not respect parentFolder and looks at root.
ExistingSameAtRoot(ns, u, oname, size, parent) ==
  {i \in DOMAIN ns : /\ ns[i].owner = u
                     /\ ns[i].originalName = oname
                     /\ ns[i].size = size
                     /\ ns[i].parentFolder = Null
                     /\ ~ns[i].inTrash}

\* A duplicate lookup that finds nothing.
ExistingSameNever(ns, u, oname, size, parent) == {}

\* File.findOne({ userId, originalName, size, parentFolder, inTrash: false })
ExistingSame(ns, u, oname, size, parent) ==
  {i \in DOMAIN ns : /\ ns[i].owner = u
                     /\ ns[i].originalName = oname
                     /\ ns[i].size = size
                     /\ ns[i].parentFolder = parent
                     /\ ~ns[i].inTrash}

QuotaExceeded(st, size) ==
  st.present /\ Greater(Plus(st.usedStorage, size), QuotaCeiling)

Upload(u, oname, size, parent) ==
  LET filePath == [area |-> u, key |-> FreshKey(nodes, store)]
      written == store \cup {filePath}
      req == [op |-> "upload", user |-> u, originalName |-> oname, size |-> size,
              parentFolder |-> parent]
  IN
  /\ Cardinality(store) < MaxObjects
  /\ IF parent # Null /\ ~ParentFolderDoc(nodes, u, parent)
     THEN /\ store' = Unlink(written, filePath)
          /\ last' = req @@ [result |-> "InvalidParentError", id |-> Null]
          /\ UNCHANGED <<nodes, nextId, stats>>
     ELSE IF QuotaExceeded(stats[u], size)
     THEN /\ store' = Unlink(written, filePath)
          /\ last' = req @@ [result |-> "QuotaExceededError", id |-> Null]
          /\ UNCHANGED <<nodes, nextId, stats>>
     ELSE IF ExistingSame(nodes, u, oname, size, parent) # {}
     THEN /\ \E e \in ExistingSame(nodes, u, oname, size, parent) :
               last' = req @@ [result |-> "Duplicate", id |-> e]
          /\ stats' = UpdateUserStats(stats, nodes, u)
          /\ store' = written
          /\ UNCHANGED <<nodes, nextId>>
     ELSE /\ nextId <= MaxNodes
          /\ nodes' = nodes @@ (nextId :> FileNode(u, oname, size, filePath, parent))
          /\ nextId' = nextId + 1
          /\ stats' = UpdateUserStats(stats, nodes', u)
          /\ store' = written
          /\ last' = req @@ [result |-> "Created", id |-> nextId]

\* The upload handler up to its await of StorageStats.updateUserStats: the
\* checks and newFile.save().  The ledger is left as it is.
UploadSave(u, oname, size, parent) ==
  LET filePath == [area |-> u, key |-> FreshKey(nodes, store)]
      written == store \cup {filePath}
      req == [op |-> "upload", user |-> u, originalName |-> oname, size |-> size,
              parentFolder |-> parent]
  IN
  /\ Cardinality(store) < MaxObjects
  /\ UNCHANGED stats
  /\ IF parent # Null /\ ~ParentFolderDoc(nodes, u, parent)
     THEN /\ store' = Unlink(written, filePath)
          /\ last' = req @@ [result |-> "InvalidParentError", id |-> Null]
          /\ UNCHANGED <<nodes, nextId>>
     ELSE IF QuotaExceeded(stats[u], size)
     THEN /\ store' = Unlink(written, filePath)
          /\ last' = req @@ [result |-> "QuotaExceededError", id |-> Null]
          /\ UNCHANGED <<nodes, nextId>>
     ELSE IF ExistingSame(nodes, u, oname, size, parent) # {}
     THEN /\ \E e \in ExistingSame(nodes, u, oname, size, parent) :
               last' = req @@ [result |-> "Duplicate", id |-> e]
          /\ store' = written
          /\ UNCHANGED <<nodes, nextId>>
     ELSE /\ nextId <= MaxNodes
          /\ nodes' = nodes @@ (nextId :> FileNode(u, oname, size, filePath, parent))
          /\ nextId' = nextId + 1
          /\ store' = written
          /\ last' = req @@ [result |-> "Created", id |-> nextId]

\* StorageStats.updateUserStats in its two steps: the read of the node set ...
LedgerRead(ns, u) == Recompute(ns, u)

\* ... and the write of what was read.
LedgerWrite(st, u, snapshot) == [st EXCEPT ![u] = snapshot]

-----------------------------------------------------------------------------
(* Activity.logActivity: save() validates the type against the schema enum *)

ActivityTypes ==
  {"upload", "download", "view", "share", "rename", "move", "delete", "restore",
   "create_folder", "share_link", "copy", "permanent_delete", "empty_trash",
   "download_public"}

LogActivityThrows(type) == type \notin ActivityTypes

\* The schema also requires fileName and userId: a null or empty value fails
\* validation.
ActivityInvalid(activity) ==
  \/ LogActivityThrows(activity.type)
  \/ activity.fileName = NoName
  \/ activity.userId = Null

-----------------------------------------------------------------------------
(* POST /upload-multiple *)

\* findOne on several matches: the first document in natural order
First(S) == CHOOSE i \in S : \A j \in S : i <= j

RECURSIVE FreshKeys(_, _)
FreshKeys(used, n) ==
  IF n = 0 THEN <<>>
  ELSE LET k == CHOOSE k \in 1..(Cardinality(used) + 1) : k \notin used
       IN  <<k>> \o FreshKeys(used \cup {k}, n - 1)

RECURSIVE SumFileSizes(_)
SumFileSizes(files) ==
  IF files = <<>> THEN Zero ELSE Plus(Head(files).size, SumFileSizes(Tail(files)))

\* First loop: the folders of one relative path.  acc.map is folderMap.
RECURSIVE MakeDirs(_, _, _, _, _)
MakeDirs(acc, u, dirs, i, currentParent) ==
  IF i > Len(dirs) \/ ~acc.ok THEN acc
  ELSE
    LET currentPath == SubSeq(dirs, 1, i)
        existing == ExistingFolders(acc.ns, u, dirs[i], currentParent)
    IN  IF currentPath \in DOMAIN acc.map
        THEN MakeDirs(acc, u, dirs, i + 1, acc.map[currentPath])
        ELSE IF existing # {}
        THEN MakeDirs([acc EXCEPT !.map = @ @@ (currentPath :> First(existing))],
                      u, dirs, i + 1, First(existing))
        ELSE IF acc.nid > MaxNodes
        THEN [acc EXCEPT !.ok = FALSE]
        ELSE MakeDirs([ns |-> acc.ns @@ (acc.nid :> FolderNode(u, dirs[i], currentParent)),
                       nid |-> acc.nid + 1,
                       map |-> acc.map @@ (currentPath :> acc.nid),
                       ok |-> TRUE],
                      u, dirs, i + 1, acc.nid)

RECURSIVE MakeAllDirs(_, _, _, _, _)
MakeAllDirs(acc, u, filePaths, k, parent) ==
  IF k > Len(filePaths) THEN acc
  ELSE MakeAllDirs(MakeDirs(acc, u, filePaths[k], 1, parent), u, filePaths, k + 1, parent)

\* A second loop that leaves every file in the folder the batch was sent to.
FileParentFolderOfBatch(map, dirs, parent) == parent

\* Second loop: the parent of file i is the deepest mapped prefix of its path.
FileParentFolder(map, dirs, parent) ==
  LET hits == {j \in 1..Len(dirs) : SubSeq(dirs, 1, j) \in DOMAIN map}
  IN  IF hits = {} THEN parent
      ELSE map[SubSeq(dirs, 1, CHOOSE j \in hits : \A h \in hits : h <= j)]

\* acc.outcome: "ok", "threw" (logActivity rejected), "full" (model bound)
RECURSIVE PlaceFiles(_, _, _, _, _, _, _, _)
PlaceFiles(acc, u, files, filePaths, keys, map, parent, i) ==
  IF i > Len(files) \/ acc.outcome # "ok" THEN acc
  ELSE
    LET f == files[i]
        fileParentFolder ==
          IF filePaths = <<>> THEN parent ELSE FileParentFolder(map, filePaths[i], parent)
        existingSame == ExistingSame(acc.ns, u, f.originalName, f.size, fileParentFolder)
    IN  IF existingSame # {}
        THEN IF LogActivityThrows("upload_skipped_duplicate")
             THEN [acc EXCEPT !.ids = Append(@, First(existingSame)), !.outcome = "threw"]
             ELSE PlaceFiles([acc EXCEPT !.ids = Append(@, First(existingSame))],
                             u, files, filePaths, keys, map, parent, i + 1)
        ELSE IF acc.nid > MaxNodes
        THEN [acc EXCEPT !.outcome = "full"]
        ELSE IF LogActivityThrows("upload")
        THEN [acc EXCEPT !.ns = @ @@ (acc.nid :> FileNode(u, f.originalName, f.size,
                                                  [area |-> u, key |-> keys[i]],
                                                  fileParentFolder)),
                         !.nid = @ + 1, !.outcome = "threw"]
        ELSE PlaceFiles([ns |-> acc.ns @@ (acc.nid :> FileNode(u, f.originalName, f.size,
                                                       [area |-> u, key |-> keys[i]],
                                                       fileParentFolder)),
                         nid |-> acc.nid + 1,
                         ids |-> Append(acc.ids, acc.nid),
                         outcome |-> "ok"],
                        u, files, filePaths, keys, map, parent, i + 1)

UploadMultiple(u, files, filePaths, parent) ==
  LET keys == FreshKeys({p.key : p \in store} \cup {nodes[i].path.key : i \in DOMAIN nodes},
                        Len(files))
      filePathsOf == {[area |-> u, key |-> keys[i]] : i \in 1..Len(files)}
      written == store \cup filePathsOf
      currentUsed == IF stats[u].present THEN stats[u].usedStorage ELSE Zero
      dirs == MakeAllDirs([ns |-> nodes, nid |-> nextId, map |-> <<>>, ok |-> TRUE],
                          u, filePaths, 1, parent)
      req == [op |-> "uploadMultiple", user |-> u, size |-> SumFileSizes(files),
              parentFolder |-> parent]
      placed == PlaceFiles([ns |-> dirs.ns, nid |-> dirs.nid, ids |-> <<>>, outcome |-> "ok"],
                           u, files, filePaths, keys, dirs.map, parent, 1)
  IN
  /\ Cardinality(store) + Len(files) <= MaxObjects
  /\ IF parent # Null /\ ~ParentFolderDoc(nodes, u, parent)
     THEN /\ store' = written \ {p \in filePathsOf : ExistsSync(written, p)}
          /\ last' = req @@ [result |-> "InvalidParentError", ids |-> <<>>]
          /\ UNCHANGED <<nodes, nextId, stats>>
     ELSE IF Greater(Plus(currentUsed, SumFileSizes(files)), QuotaCeiling)
     THEN /\ store' = written \ {p \in filePathsOf : ExistsSync(written, p)}
          /\ last' = req @@ [result |-> "QuotaExceededError", ids |-> <<>>]
          /\ UNCHANGED <<nodes, nextId, stats>>
     ELSE /\ dirs.ok
          /\ placed.outcome # "full"
          /\ nodes' = placed.ns
          /\ nextId' = placed.nid
          /\ IF placed.outcome = "threw"
             THEN /\ store' = written \ filePathsOf
                  /\ last' = req @@ [result |-> "ServerError", ids |-> <<>>]
                  /\ UNCHANGED stats
             ELSE /\ store' = written
                  /\ stats' = UpdateUserStats(stats, nodes', u)
                  /\ last' = req @@ [result |-> "Created", ids |-> placed.ids]

\* Requests of the batch route: 1..MaxBatch files; a folder upload gives every
\* file a relative path that starts with the uploaded folder's name.
BatchSizes == {Bytes(Room.m - 20, 0)}
BatchFile == [originalName : FileNames, size : BatchSizes]
BatchFiles == UNION {[1..n -> BatchFile] : n \in 1..MaxBatch}
DirPaths == {<< <<"a">> >>, << <<"a">>, <<"b">> >>}
\* filePaths of a folder upload: absent, or one directory per file, the files
\* of a directory listed before those of its subdirectory.
BatchPaths(files) ==
  {<<>>} \cup {fp \in [1..Len(files) -> DirPaths] :
                 \A i \in 1..(Len(files) - 1) : Len(fp[i]) <= Len(fp[i + 1])}

-----------------------------------------------------------------------------
(* PATCH /:fileId/rename *)

\* A lookup that also admits the accounts the node is shared with.
OwnedOrShared(ns, u, i) ==
  Exists(ns, i) /\ (ns[i].owner = u \/ \E k \in 1..Len(ns[i].sharedWith) :
                                         ns[i].sharedWith[k].user = u)

\* File.findOne({ _id: fileId, userId: req.user._id })
OwnedBy(ns, u, i) == Exists(ns, i) /\ ns[i].owner = u

\* A rename that refuses a name a non-trashed sibling already has.
RenameUnlessTaken(u, fileId, raw) ==
  IF raw = <<>> \/ Trim(raw) = <<>>
  THEN /\ last' = [op |-> "rename", result |-> "ValidationError", id |-> Null]
       /\ UNCHANGED <<nodes, nextId, store, stats>>
  ELSE IF ~OwnedBy(nodes, u, fileId)
  THEN /\ last' = [op |-> "rename", result |-> "NotFound", id |-> Null]
       /\ UNCHANGED <<nodes, nextId, store, stats>>
  ELSE IF \E j \in DOMAIN nodes : /\ j # fileId
                                  /\ nodes[j].owner = u
                                  /\ nodes[j].parentFolder = nodes[fileId].parentFolder
                                  /\ ~nodes[j].inTrash
                                  /\ nodes[j].name = Trim(raw)
  THEN /\ last' = [op |-> "rename", result |-> "DuplicateError", id |-> Null]
       /\ UNCHANGED <<nodes, nextId, store, stats>>
  ELSE /\ nodes' = [nodes EXCEPT ![fileId].name = Trim(raw)]
       /\ last' = [op |-> "rename", result |-> "Renamed", id |-> fileId]
       /\ UNCHANGED <<nextId, store, stats>>

Rename(u, fileId, raw) ==
  IF raw = <<>> \/ Trim(raw) = <<>>
  THEN /\ last' = [op |-> "rename", result |-> "ValidationError", id |-> Null]
       /\ UNCHANGED <<nodes, nextId, store, stats>>
  ELSE IF ~OwnedBy(nodes, u, fileId)
  THEN /\ last' = [op |-> "rename", result |-> "NotFound", id |-> Null]
       /\ UNCHANGED <<nodes, nextId, store, stats>>
  ELSE /\ nodes' = [nodes EXCEPT ![fileId].name = Trim(raw)]
       /\ last' = [op |-> "rename", result |-> "Renamed", id |-> fileId]
       /\ UNCHANGED <<nextId, store, stats>>

-----------------------------------------------------------------------------
(* POST /:fileId/move *)

\* An id as the handler holds it: the string of the request, or the ObjectId
\* of a document that a query returned.
StringId(i) == [rep |-> "string", id |-> i]
ObjectId(i) == [rep |-> "ObjectId", id |-> i]

\* a === b: two strings compare by value, anything else by identity
StrictEquals(a, b) == a.rep = "string" /\ b.rep = "string" /\ a.id = b.id

IdToString(a) == a.id

\* The walk of checkIfSubfolder from cur; "diverges" when it comes back to a
\* folder it has already visited without meeting the searched one.
RECURSIVE WalkUp(_, _, _, _)
WalkUp(ns, cur, searched, seen) ==
  IF cur = Null THEN "false"
  ELSE IF ~Exists(ns, cur) THEN "false"
  ELSE IF cur = searched THEN "true"
  ELSE IF cur \in seen THEN "diverges"
  ELSE WalkUp(ns, ns[cur].parentFolder, searched, seen \cup {cur})

CheckIfSubfolder(ns, parentFolderId, potentialSubfolderId) ==
  WalkUp(ns, IdToString(parentFolderId), IdToString(potentialSubfolderId), {})

FoldersNamed(ns, u, name) ==
  {i \in DOMAIN ns : /\ ns[i].name = name
                     /\ ns[i].owner = u
                     /\ ns[i].isFolder
                     /\ ~ns[i].inTrash}

TargetFolderDoc(ns, u, t) == OwnedBy(ns, u, t) /\ ns[t].isFolder

MoveTo(u, fileId, target) ==
  IF target.id # Null /\ ~TargetFolderDoc(nodes, u, target.id)
  THEN /\ last' = [op |-> "move", result |-> "NotFound", id |-> Null]
       /\ UNCHANGED <<nodes, nextId, store, stats>>
  ELSE IF target.id # Null /\ nodes[fileId].isFolder
                           /\ StrictEquals(StringId(fileId), target)
  THEN /\ last' = [op |-> "move", result |-> "SelfMoveError", id |-> Null]
       /\ UNCHANGED <<nodes, nextId, store, stats>>
  ELSE IF target.id # Null /\ nodes[fileId].isFolder
                           /\ CheckIfSubfolder(nodes, target, StringId(fileId)) = "true"
  THEN /\ last' = [op |-> "move", result |-> "CycleError", id |-> Null]
       /\ UNCHANGED <<nodes, nextId, store, stats>>
  ELSE IF target.id # Null /\ nodes[fileId].isFolder
                           /\ CheckIfSubfolder(nodes, target, StringId(fileId)) = "diverges"
  THEN /\ last' = [op |-> "move", result |-> "NoResponse", id |-> Null]
       /\ UNCHANGED <<nodes, nextId, store, stats>>
  ELSE /\ nodes' = [nodes EXCEPT ![fileId].parentFolder = target.id]
       /\ last' = [op |-> "move", result |-> "Moved", id |-> fileId]
       /\ UNCHANGED <<nextId, store, stats>>

Move(u, fileId, targetFolderId, targetFolderName) ==
  IF ~OwnedBy(nodes, u, fileId)
  THEN /\ last' = [op |-> "move", result |-> "NotFound", id |-> Null]
       /\ UNCHANGED <<nodes, nextId, store, stats>>
  ELSE IF targetFolderName # NoName /\ targetFolderId = Null
  THEN IF FoldersNamed(nodes, u, targetFolderName) = {}
       THEN /\ last' = [op |-> "move", result |-> "NotFound", id |-> Null]
            /\ UNCHANGED <<nodes, nextId, store, stats>>
       ELSE \E t \in FoldersNamed(nodes, u, targetFolderName) :
              MoveTo(u, fileId, ObjectId(t))
  ELSE MoveTo(u, fileId, StringId(targetFolderId))

\* The move handler, for a target given by id, up to its await of file.save():
\* the lookups and the checks on the documents read.  A request that passes
\* holds the parentFolder it has set on its copy of the document.
MoveCheck(u, fileId, targetFolderId) ==
  LET target == StringId(targetFolderId)
      answer(r) == /\ last' = [op |-> "move", result |-> r, id |-> Null]
                   /\ UNCHANGED <<nodes, nextId, store, stats, inflight>>
  IN  IF ~OwnedBy(nodes, u, fileId) THEN answer("NotFound")
      ELSE IF target.id # Null /\ ~TargetFolderDoc(nodes, u, target.id)
      THEN answer("NotFound")
      ELSE IF target.id # Null /\ nodes[fileId].isFolder
                               /\ StrictEquals(StringId(fileId), target)
      THEN answer("SelfMoveError")
      ELSE IF target.id # Null /\ nodes[fileId].isFolder
                               /\ CheckIfSubfolder(nodes, target, StringId(fileId)) = "true"
      THEN answer("CycleError")
      ELSE IF target.id # Null /\ nodes[fileId].isFolder
                               /\ CheckIfSubfolder(nodes, target, StringId(fileId)) = "diverges"
      THEN answer("NoResponse")
      ELSE /\ inflight' = Append(inflight, [user |-> u, fileId |-> fileId,
                                            parentFolder |-> target.id])
           /\ last' = [op |-> "move", result |-> "Saving", id |-> fileId]
           /\ UNCHANGED <<nodes, nextId, store, stats>>

\* file.save() of request k: the parentFolder it has set is written.
MoveSave(k) ==
  LET req == inflight[k]
  IN  /\ inflight' = Splice(inflight, k)
      /\ IF Exists(nodes, req.fileId)
         THEN /\ nodes' = [nodes EXCEPT ![req.fileId].parentFolder = req.parentFolder]
              /\ last' = [op |-> "move", result |-> "Moved", id |-> req.fileId]
         ELSE /\ last' = [op |-> "move", result |-> "ServerError", id |-> Null]
              /\ UNCHANGED nodes
      /\ UNCHANGED <<nextId, store, stats>>

-----------------------------------------------------------------------------
(* POST /:fileId/copy *)

CopySuffix == <<" ", "(Copy)">>

\* A copy that keeps the name of the original.
CopyNodeSameName(orig, u, target) ==
  [owner |-> u, name |-> orig.name, originalName |-> orig.originalName,
   isFolder |-> orig.isFolder, size |-> orig.size, path |-> orig.path,
   parentFolder |-> target] @@ FileDefaults

CopyNode(orig, u, target) ==
  [owner |-> u, name |-> orig.name \o CopySuffix, originalName |-> orig.originalName,
   isFolder |-> orig.isFolder, size |-> orig.size, path |-> orig.path,
   parentFolder |-> target] @@ FileDefaults

Copy(u, fileId, targetFolderId) ==
  IF ~OwnedBy(nodes, u, fileId)
  THEN /\ last' = [op |-> "copy", result |-> "NotFound", id |-> Null]
       /\ UNCHANGED <<nodes, nextId, store, stats>>
  ELSE IF targetFolderId # Null /\ ~TargetFolderDoc(nodes, u, targetFolderId)
  THEN /\ last' = [op |-> "copy", result |-> "NotFound", id |-> Null]
       /\ UNCHANGED <<nodes, nextId, store, stats>>
  ELSE /\ nextId <= MaxNodes
       /\ nodes' = nodes @@ (nextId :> CopyNode(nodes[fileId], u, targetFolderId))
       /\ nextId' = nextId + 1
       /\ last' = [op |-> "copy", result |-> "Copied", id |-> nextId]
       /\ UNCHANGED <<store, stats>>

-----------------------------------------------------------------------------
(* POST /:fileId/trash, POST /:fileId/restore *)

\* A trash that also trashes the children of the folder.
TrashWithChildren(u, fileId) ==
  IF ~OwnedBy(nodes, u, fileId)
  THEN /\ last' = [op |-> "trash", result |-> "NotFound", id |-> Null]
       /\ UNCHANGED <<nodes, nextId, store, stats, now>>
  ELSE /\ now' = now
       /\ nodes' = [i \in DOMAIN nodes |->
                      IF i = fileId \/ nodes[i].parentFolder = fileId
                      THEN [nodes[i] EXCEPT !.inTrash = TRUE, !.deletedAt = now,
                                            !.permanentDeleteAt = AddDays(now, RetentionDays)]
                      ELSE nodes[i]]
       /\ stats' = UpdateUserStats(stats, nodes', u)
       /\ last' = [op |-> "trash", result |-> "Trashed", id |-> fileId,
                   before |-> nodes[fileId], statsBefore |-> stats[u]]
       /\ UNCHANGED <<nextId, store>>

\* The handler reads the clock twice, new Date() and then Date.now(); the
\* clock may have moved on by a millisecond in between.
Trash(u, fileId) ==
  IF ~OwnedBy(nodes, u, fileId)
  THEN /\ last' = [op |-> "trash", result |-> "NotFound", id |-> Null]
       /\ UNCHANGED <<nodes, nextId, store, stats, now>>
  ELSE \E tick \in 0..1 :
       /\ now.ms + tick <= MaxTicks
       /\ now' = AddMs(now, tick)
       /\ nodes' = [nodes EXCEPT ![fileId].inTrash = TRUE,
                                 ![fileId].deletedAt = now,
                                 ![fileId].permanentDeleteAt = AddDays(now', RetentionDays)]
       /\ stats' = UpdateUserStats(stats, nodes', u)
       /\ last' = [op |-> "trash", result |-> "Trashed", id |-> fileId,
                   before |-> nodes[fileId], statsBefore |-> stats[u]]
       /\ UNCHANGED <<nextId, store>>

\* A restore that does not ask for the node to be in trash.
RestoreAny(u, fileId) ==
  IF ~OwnedBy(nodes, u, fileId)
  THEN /\ last' = [op |-> "restore", result |-> "NotFound", id |-> Null]
       /\ UNCHANGED <<nodes, nextId, store, stats>>
  ELSE /\ nodes' = [nodes EXCEPT ![fileId].inTrash = FALSE,
                                 ![fileId].deletedAt = NoDate,
                                 ![fileId].permanentDeleteAt = NoDate]
       /\ stats' = UpdateUserStats(stats, nodes', u)
       /\ last' = [op |-> "restore", result |-> "Restored", id |-> fileId]
       /\ UNCHANGED <<nextId, store>>

Restore(u, fileId) ==
  IF ~(OwnedBy(nodes, u, fileId) /\ nodes[fileId].inTrash)
  THEN /\ last' = [op |-> "restore", result |-> "NotFound", id |-> Null]
       /\ UNCHANGED <<nodes, nextId, store, stats>>
  ELSE /\ nodes' = [nodes EXCEPT ![fileId].inTrash = FALSE,
                                 ![fileId].deletedAt = NoDate,
                                 ![fileId].permanentDeleteAt = NoDate]
       /\ stats' = UpdateUserStats(stats, nodes', u)
       /\ last' = [op |-> "restore", result |-> "Restored", id |-> fileId]
       /\ UNCHANGED <<nextId, store>>

-----------------------------------------------------------------------------
(* DELETE /:fileId, DELETE /trash/empty *)

\* A delete that removes no document.
WithoutNothing(ns, S) == ns

\* deleteMany / findByIdAndDelete: the documents of S are gone
Without(ns, S) == [i \in DOMAIN ns \ S |-> ns[i]]

PermanentDelete(u, fileId) ==
  IF ~OwnedBy(nodes, u, fileId)
  THEN /\ last' = [op |-> "permanentDelete", result |-> "NotFound", id |-> Null,
                   user |-> u, fileId |-> fileId]
       /\ UNCHANGED <<nodes, nextId, store, stats>>
  ELSE /\ store' = IF ExistsSync(store, nodes[fileId].path)
                   THEN Unlink(store, nodes[fileId].path) ELSE store
       /\ nodes' = Without(nodes, {fileId})
       /\ stats' = UpdateUserStats(stats, nodes', u)
       /\ last' = [op |-> "permanentDelete", result |-> "Deleted", id |-> fileId,
                   user |-> u, fileId |-> fileId, before |-> nodes[fileId],
                   hadObject |-> ExistsSync(store, nodes[fileId].path)]
       /\ UNCHANGED nextId

\* A trash query that forgets the owner.
TrashFilesOfAll(ns, u) == {i \in DOMAIN ns : ns[i].inTrash}

TrashFiles(ns, u) == {i \in DOMAIN ns : ns[i].owner = u /\ ns[i].inTrash}

EmptyTrash(u) ==
  LET trashFiles == TrashFiles(nodes, u)
  IN  /\ store' = store \ {nodes[i].path : i \in trashFiles}
      /\ nodes' = Without(nodes, TrashFiles(nodes, u))
      /\ stats' = UpdateUserStats(stats, nodes', u)
      /\ last' = [op |-> "emptyTrash", result |-> "Emptied", id |-> Null,
                  user |-> u, deletedCount |-> Cardinality(trashFiles)]
      /\ UNCHANGED nextId

-----------------------------------------------------------------------------
(* POST /:fileId/share-link, POST /:fileId/revoke-link *)

\* crypto.randomBytes(16): 128 random bits, taken as a value that was never
\* issued before.  A token is named by the number of steps the run has left
\* when it is issued, which no earlier and no later step shares.
FreshToken(ns) == budget

\* A share-link without the folder check.
ShareLinkOfAny(u, fileId) ==
  IF ~OwnedBy(nodes, u, fileId)
  THEN /\ last' = [op |-> "shareLink", result |-> "NotFound", id |-> Null]
       /\ UNCHANGED <<nodes, nextId, store, stats>>
  ELSE IF nodes[fileId].isPublic /\ nodes[fileId].publicUrl # Null
  THEN /\ last' = [op |-> "shareLink", result |-> "Link", id |-> fileId,
                   token |-> nodes[fileId].publicUrl]
       /\ UNCHANGED <<nodes, nextId, store, stats>>
  ELSE /\ nodes' = [nodes EXCEPT ![fileId].isPublic = TRUE,
                                 ![fileId].publicUrl = FreshToken(nodes)]
       /\ last' = [op |-> "shareLink", result |-> "Link", id |-> fileId,
                   token |-> FreshToken(nodes)]
       /\ UNCHANGED <<nextId, store, stats>>

ShareLink(u, fileId) ==
  IF ~OwnedBy(nodes, u, fileId)
  THEN /\ last' = [op |-> "shareLink", result |-> "NotFound", id |-> Null]
       /\ UNCHANGED <<nodes, nextId, store, stats>>
  ELSE IF nodes[fileId].isFolder
  THEN /\ last' = [op |-> "shareLink", result |-> "FolderError", id |-> Null]
       /\ UNCHANGED <<nodes, nextId, store, stats>>
  ELSE IF nodes[fileId].isPublic /\ nodes[fileId].publicUrl # Null
  THEN /\ last' = [op |-> "shareLink", result |-> "Link", id |-> fileId,
                   token |-> nodes[fileId].publicUrl]
       /\ UNCHANGED <<nodes, nextId, store, stats>>
  ELSE /\ nodes' = [nodes EXCEPT ![fileId].isPublic = TRUE,
                                 ![fileId].publicUrl = FreshToken(nodes)]
       /\ last' = [op |-> "shareLink", result |-> "Link", id |-> fileId,
                   token |-> FreshToken(nodes)]
       /\ UNCHANGED <<nextId, store, stats>>

\* A revoke that clears the flag and leaves the token on the node.
RevokeLinkFlagOnly(u, fileId) ==
  IF ~OwnedBy(nodes, u, fileId)
  THEN /\ last' = [op |-> "revokeLink", result |-> "NotFound", id |-> Null]
       /\ UNCHANGED <<nodes, nextId, store, stats>>
  ELSE /\ nodes' = [nodes EXCEPT ![fileId].isPublic = FALSE]
       /\ last' = [op |-> "revokeLink", result |-> "Revoked", id |-> fileId]
       /\ UNCHANGED <<nextId, store, stats>>

RevokeLink(u, fileId) ==
  IF ~OwnedBy(nodes, u, fileId)
  THEN /\ last' = [op |-> "revokeLink", result |-> "NotFound", id |-> Null]
       /\ UNCHANGED <<nodes, nextId, store, stats>>
  ELSE /\ nodes' = [nodes EXCEPT ![fileId].isPublic = FALSE,
                                 ![fileId].publicUrl = Null]
       /\ last' = [op |-> "revokeLink", result |-> "Revoked", id |-> fileId]
       /\ UNCHANGED <<nextId, store, stats>>

-----------------------------------------------------------------------------
(* GET /public/:token *)

\* Tokens a request can carry: those in use and one never issued.
TokenInputs == ({nodes[i].publicUrl : i \in DOMAIN nodes} \ {Null}) \cup {FreshToken(nodes)}

\* File.findOne({ publicUrl: token, inTrash: false })
PublicFile(ns, token) == {i \in DOMAIN ns : ns[i].publicUrl = token /\ ~ns[i].inTrash}

PublicDownload(token) ==
  LET answer(r, i) == last' = [op |-> "publicDownload", result |-> r, id |-> i,
                               token |-> token]
  IN  /\ UNCHANGED <<nodes, nextId, store, stats>>
      /\ IF PublicFile(nodes, token) = {} THEN answer("NotFound", Null)
         ELSE \E f \in PublicFile(nodes, token) :
                IF nodes[f].isFolder THEN answer("FolderError", Null)
                ELSE IF ~ExistsSync(store, nodes[f].path) THEN answer("ContentMissing", Null)
                ELSE IF ActivityInvalid([type |-> "download_public", fileId |-> f,
                                         fileName |-> nodes[f].name, userId |-> Null])
                THEN answer("ServerError", Null)
                ELSE answer("Served", f)

-----------------------------------------------------------------------------
(* POST /:fileId/share, POST /:fileId/remove-share *)

\* req.body.targetUserEmail: the address of an account, of nobody, or absent
NoEmail == ""
Emails == Users \cup {"nobody"}
TargetInputs == Emails \cup {NoEmail}
Permissions == {"view", "edit"}

\* User.findOne({ email }): accounts are named by their address
TargetUser(email) == IF email \in Users THEN email ELSE NoEmail

ShareEntry(target, permission, at) ==
  [user |-> target, permission |-> permission, sharedAt |-> at]

AlreadyShared(doc, target) ==
  \E k \in 1..Len(doc.sharedWith) : doc.sharedWith[k].user = target

\* The share handler up to its await of file.save(): the validations, the read
\* of the document and the check of the entries read.  A request that passes
\* holds the entry it pushed onto its copy of the document.
ShareCheck(u, fileId, targetUserEmail, permission) ==
  LET answer(r) == /\ last' = [op |-> "share", result |-> r, id |-> Null]
                   /\ UNCHANGED <<nodes, nextId, store, stats, inflight>>
  IN  IF targetUserEmail = NoEmail THEN answer("ValidationError")
      ELSE IF TargetUser(targetUserEmail) = NoEmail THEN answer("UserNotFound")
      ELSE IF TargetUser(targetUserEmail) = u THEN answer("SelfShareError")
      ELSE IF ~OwnedBy(nodes, u, fileId) THEN answer("NotFound")
      ELSE IF AlreadyShared(nodes[fileId], TargetUser(targetUserEmail))
      THEN answer("AlreadyShared")
      ELSE /\ inflight' = Append(inflight,
                                  [user |-> u, fileId |-> fileId,
                                   entry |-> ShareEntry(TargetUser(targetUserEmail),
                                                        permission, now)])
           /\ last' = [op |-> "share", result |-> "Saving", id |-> fileId]
           /\ UNCHANGED <<nodes, nextId, store, stats>>

\* file.save() of request k: the pushed entry is appended to the entries the
\* document has by then, whatever the request had read.
ShareSave(k) ==
  LET req == inflight[k]
  IN  /\ inflight' = Splice(inflight, k)
      /\ IF Exists(nodes, req.fileId)
         THEN /\ nodes' = [nodes EXCEPT ![req.fileId].sharedWith = Append(@, req.entry)]
              /\ last' = [op |-> "share", result |-> "Shared", id |-> req.fileId]
         ELSE /\ last' = [op |-> "share", result |-> "ServerError", id |-> Null]
              /\ UNCHANGED nodes
      /\ UNCHANGED <<nextId, store, stats>>

\* The document is looked up by _id alone; the entry removed is the first one
\* of the requester.
RemoveShare(u, fileId) ==
  IF ~Exists(nodes, fileId)
  THEN /\ last' = [op |-> "removeShare", result |-> "NotFound", id |-> Null]
       /\ UNCHANGED <<nodes, nextId, store, stats>>
  ELSE LET mine == {k \in 1..Len(nodes[fileId].sharedWith) :
                      nodes[fileId].sharedWith[k].user = u}
       IN  IF mine = {}
           THEN /\ last' = [op |-> "removeShare", result |-> "Forbidden", id |-> Null]
                /\ UNCHANGED <<nodes, nextId, store, stats>>
           ELSE LET shareIndex == CHOOSE k \in mine : \A h \in mine : k <= h
                IN  /\ nodes' = [nodes EXCEPT ![fileId].sharedWith = Splice(@, shareIndex)]
                    /\ last' = [op |-> "removeShare", result |-> "Removed", id |-> fileId]
                    /\ UNCHANGED <<nextId, store, stats>>

-----------------------------------------------------------------------------

NoRequest == [op |-> "none", result |-> "none", id |-> Null]

\* The clock at its start, no request in flight and no script to run.
Idle == now = StartDate /\ inflight = <<>> /\ script = <<>>

\* Each account has created one folder at root before the run starts: the
\* state after their two POST /folders, which write no StorageStats.
FirstFolders ==
  (1 :> FolderNode("u2", <<"a">>, Null)) @@ (2 :> FolderNode("u1", <<"a">>, Null))

Init ==
  /\ nodes = FirstFolders
  /\ nextId = 3
  /\ store = {}
  /\ stats = [u \in Users |-> NoStats]
  /\ last = NoRequest
  /\ budget = MaxSteps
  /\ bulk = 0
  /\ Idle

\* The state after u1 has then uploaded a first file to root.
FirstUpload ==
  [op |-> "upload", user |-> "u1", originalName |-> <<"b">>,
   size |-> Bytes(Room.m - 40, 0), parentFolder |-> Null]
FirstPath == [area |-> FirstUpload.user, key |-> 1]
FirstFile ==
  FileNode(FirstUpload.user, FirstUpload.originalName, FirstUpload.size, FirstPath,
           FirstUpload.parentFolder)

InitUploaded ==
  /\ nodes = FirstFolders @@ (3 :> FirstFile)
  /\ nextId = 4
  /\ store = {FirstPath}
  /\ bulk = 0
  /\ stats = [u \in Users |->
                IF u = FirstUpload.user THEN Recompute(FirstFolders @@ (3 :> FirstFile), u)
                ELSE NoStats]
  /\ last = FirstUpload @@ [result |-> "Created", id |-> 3]
  /\ budget = MaxSteps
  /\ Idle

\* Runs that start from an account without older uploads, or from one close
\* to its ceiling: u1 has uploaded BallastFiles files of the largest size multer
\* accepts, each recorded in its stats.  The run of the account without them is
\* one request shorter.
InitQuota ==
  /\ Idle
  /\ nodes = FirstFolders
  /\ nextId = 3
  /\ store = {}
  /\ last = NoRequest
  /\ \/ /\ bulk = 0
        /\ stats = [u \in Users |-> NoStats]
        /\ budget = MaxQuotaSteps - 1
     \/ /\ bulk = BallastFiles
        /\ stats = [u \in Users |->
                      IF u = BulkOwner THEN Recompute(FirstFolders, u) ELSE NoStats]
        /\ budget = MaxQuotaSteps

\* One request is served at a time; budget bounds the length of a run.
Tick == budget > 0 /\ budget' = budget - 1 /\ UNCHANGED <<bulk, inflight, script>>

\* A handler that does not read the clock.
NoClock == now' = now

DoCreateFolder ==
  \E u \in Requesters, raw \in RawNames, p \in ParentInputs :
    Tick /\ NoClock /\ CreateFolder(u, raw, p)

DoUpload ==
  \E u \in Requesters, n \in FileNames, z \in Sizes, p \in ParentInputs :
    Tick /\ NoClock /\ Upload(u, n, z, p)

DoUploadMultiple ==
  \E u \in Requesters, fs \in BatchFiles, p \in ParentInputs :
    \E fp \in BatchPaths(fs) : Tick /\ NoClock /\ UploadMultiple(u, fs, fp, p)

DoRename ==
  \E u \in Requesters, f \in ReqIds, raw \in RawNames : Tick /\ NoClock /\ Rename(u, f, raw)

DoMoveById ==
  \E u \in Requesters, f \in ReqIds, t \in ParentInputs : Tick /\ NoClock /\ Move(u, f, t, NoName)

DoMoveByName ==
  \E u \in Requesters, f \in ReqIds, n \in DirNames : Tick /\ NoClock /\ Move(u, f, Null, n)

DoCopy ==
  \E u \in Requesters, f \in ReqIds, t \in ParentInputs : Tick /\ NoClock /\ Copy(u, f, t)

DoTrash == \E u \in Requesters, f \in ReqIds : Tick /\ Trash(u, f)

DoRestore == \E u \in Requesters, f \in ReqIds : Tick /\ NoClock /\ Restore(u, f)

DoPermanentDelete == \E u \in Requesters, f \in ReqIds : Tick /\ NoClock /\ PermanentDelete(u, f)

DoEmptyTrash == \E u \in Requesters : Tick /\ NoClock /\ EmptyTrash(u)

Next ==
  \/ DoCreateFolder
  \/ DoUpload
  \/ DoUploadMultiple
  \/ DoRename
  \/ DoMoveById
  \/ DoMoveByName
  \/ DoCopy
  \/ DoTrash
  \/ DoRestore
  \/ DoPermanentDelete
  \/ DoEmptyTrash

Spec == Init /\ [][Next]_vars

SpecQuota == InitQuota /\ [][Next]_vars

SpecUploaded == InitUploaded /\ [][Next]_vars

-----------------------------------------------------------------------------
(* The life of nodes: trash, restore, delete and public links, by both      *)
(* accounts.                                                                *)

\* u1 has uploaded its first file into its folder; u2 has only its folder.
LifeFile == [FirstFile EXCEPT !.parentFolder = 2]

InitLife ==
  /\ Idle
  /\ nodes = FirstFolders @@ (3 :> LifeFile)
  /\ nextId = 4
  /\ store = {FirstPath}
  /\ bulk = 0
  /\ stats = [u \in Users |->
                IF u = LifeFile.owner THEN Recompute(FirstFolders @@ (3 :> LifeFile), u)
                ELSE NoStats]
  /\ last = [FirstUpload EXCEPT !.parentFolder = 2] @@ [result |-> "Created", id |-> 3]
  /\ budget = MaxLifeSteps

LifeTrash == \E u \in Users, f \in ReqIds : Tick /\ Trash(u, f)

LifeRestore == \E u \in Users, f \in ReqIds : Tick /\ NoClock /\ Restore(u, f)

LifePermanentDelete ==
  \E u \in Users, f \in ReqIds : Tick /\ NoClock /\ PermanentDelete(u, f)

LifeEmptyTrash == \E u \in Users : Tick /\ NoClock /\ EmptyTrash(u)

LifeCopy ==
  \E u \in Users, f \in ReqIds, t \in ParentInputs : Tick /\ NoClock /\ Copy(u, f, t)

LifeShareLink == \E u \in Users, f \in ReqIds : Tick /\ NoClock /\ ShareLink(u, f)

LifeRevokeLink == \E u \in Users, f \in ReqIds : Tick /\ NoClock /\ RevokeLink(u, f)

LifePublicDownload == \E t \in TokenInputs : Tick /\ NoClock /\ PublicDownload(t)

NextLife ==
  \/ LifeTrash
  \/ LifeRestore
  \/ LifePermanentDelete
  \/ LifeEmptyTrash
  \/ LifeCopy
  \/ LifeShareLink
  \/ LifeRevokeLink
  \/ LifePublicDownload

SpecLife == InitLife /\ [][NextLife]_vars

-----------------------------------------------------------------------------
(* Sharing: share requests of both accounts run concurrently, each in two   *)
(* steps around its await of file.save().                                   *)

InitShare ==
  /\ Idle
  /\ nodes = FirstFolders @@ (3 :> LifeFile)
  /\ nextId = 4
  /\ store = {FirstPath}
  /\ bulk = 0
  /\ stats = [u \in Users |->
                IF u = LifeFile.owner THEN Recompute(FirstFolders @@ (3 :> LifeFile), u)
                ELSE NoStats]
  /\ last = [FirstUpload EXCEPT !.parentFolder = 2] @@ [result |-> "Created", id |-> 3]
  /\ budget = MaxShareSteps

ShareStep == budget > 0 /\ budget' = budget - 1 /\ NoClock /\ UNCHANGED <<bulk, script>>

ShareBegin ==
  \E u \in Users, f \in ReqIds, e \in TargetInputs, p \in Permissions :
    /\ Len(inflight) < MaxInflight
    /\ ShareStep
    /\ ShareCheck(u, f, e, p)

ShareEnd == \E k \in 1..Len(inflight) : ShareStep /\ ShareSave(k)

ShareRemove ==
  \E u \in Users, f \in ReqIds : ShareStep /\ RemoveShare(u, f) /\ UNCHANGED inflight

NextShare ==
  \/ ShareBegin
  \/ ShareEnd
  \/ ShareRemove

SpecShare == InitShare /\ [][NextShare]_vars

-----------------------------------------------------------------------------
(* Access: every request on a node, by its owner and by the other account,  *)
(* one request at a time.  u1 has shared its file with u2 for editing.      *)

SharedFile == [LifeFile EXCEPT !.sharedWith = <<ShareEntry("u2", "edit", StartDate)>>]

InitAccess ==
  /\ Idle
  /\ nodes = FirstFolders @@ (3 :> SharedFile)
  /\ nextId = 4
  /\ store = {FirstPath}
  /\ bulk = 0
  /\ stats = [u \in Users |->
                IF u = SharedFile.owner THEN Recompute(FirstFolders @@ (3 :> SharedFile), u)
                ELSE NoStats]
  /\ last = [op |-> "share", result |-> "Shared", id |-> 3]
  /\ budget = MaxAccessSteps

\* A request starts when none is in flight.
Serve == inflight = <<>> /\ Tick

AccessRename ==
  \E u \in Users, f \in ReqIds, raw \in RawNames : Serve /\ NoClock /\ Rename(u, f, raw)

AccessMove ==
  \E u \in Users, f \in ReqIds, t \in ParentInputs :
    Serve /\ NoClock /\ Move(u, f, t, NoName)

AccessCopy ==
  \E u \in Users, f \in ReqIds, t \in ParentInputs : Serve /\ NoClock /\ Copy(u, f, t)

AccessTrash == \E u \in Users, f \in ReqIds : Serve /\ Trash(u, f)

AccessRestore == \E u \in Users, f \in ReqIds : Serve /\ NoClock /\ Restore(u, f)

AccessPermanentDelete ==
  \E u \in Users, f \in ReqIds : Serve /\ NoClock /\ PermanentDelete(u, f)

AccessShare ==
  \E u \in Users, f \in ReqIds, e \in TargetInputs, p \in Permissions :
    /\ inflight = <<>>
    /\ ShareStep
    /\ ShareCheck(u, f, e, p)

AccessShareSave == inflight # <<>> /\ NoClock /\ ShareSave(1) /\ UNCHANGED <<budget, bulk, script>>

AccessShareLink == \E u \in Users, f \in ReqIds : Serve /\ NoClock /\ ShareLink(u, f)

AccessRevokeLink == \E u \in Users, f \in ReqIds : Serve /\ NoClock /\ RevokeLink(u, f)

NextAccess ==
  \/ AccessRename
  \/ AccessMove
  \/ AccessCopy
  \/ AccessTrash
  \/ AccessRestore
  \/ AccessPermanentDelete
  \/ AccessShare
  \/ AccessShareSave
  \/ AccessShareLink
  \/ AccessRevokeLink

SpecAccess == InitAccess /\ [][NextAccess]_vars

-----------------------------------------------------------------------------
(* Folders: both accounts create, rename and trash folders.                 *)

InitFolders ==
  /\ Idle
  /\ nodes = FirstFolders
  /\ nextId = 3
  /\ store = {}
  /\ bulk = 0
  /\ stats = [u \in Users |-> NoStats]
  /\ last = NoRequest
  /\ budget = MaxFolderSteps

FolderCreate ==
  \E u \in Users, raw \in RawNames, p \in ParentInputs :
    Tick /\ NoClock /\ CreateFolder(u, raw, p)

FolderRename ==
  \E u \in Users, f \in ReqIds, raw \in RawNames : Tick /\ NoClock /\ Rename(u, f, raw)

FolderTrash == \E u \in Users, f \in ReqIds : Tick /\ Trash(u, f)

NextFolders ==
  \/ FolderCreate
  \/ FolderRename
  \/ FolderTrash

SpecFolders == InitFolders /\ [][NextFolders]_vars

-----------------------------------------------------------------------------
(* Folder uploads: batches of one account, and folders going to the trash   *)
(* between them.                                                            *)

InitBatch ==
  /\ Idle
  /\ nodes = FirstFolders
  /\ nextId = 3
  /\ store = {}
  /\ bulk = 0
  /\ stats = [u \in Users |-> NoStats]
  /\ last = NoRequest
  /\ budget = MaxBatchSteps

BatchUpload ==
  \E u \in Requesters, fs \in BatchFiles, p \in ParentInputs :
    \E fp \in BatchPaths(fs) : Tick /\ NoClock /\ UploadMultiple(u, fs, fp, p)

BatchTrash == \E u \in Requesters, f \in ReqIds : Tick /\ Trash(u, f)

NextBatch ==
  \/ BatchUpload
  \/ BatchTrash

SpecBatch == InitBatch /\ [][NextBatch]_vars

-----------------------------------------------------------------------------
(* Moves: move requests of one account run concurrently, each in two steps  *)
(* around its await of file.save().  The account has two folders at root.   *)

SiblingFolders == FirstFolders @@ (3 :> FolderNode("u1", <<"b">>, Null))

InitMoves ==
  /\ Idle
  /\ nodes = SiblingFolders
  /\ nextId = 4
  /\ store = {}
  /\ bulk = 0
  /\ stats = [u \in Users |-> NoStats]
  /\ last = [op |-> "createFolder", result |-> "Created", id |-> 3]
  /\ budget = MaxMoveSteps

MoveBegin ==
  \E u \in Requesters, f \in ReqIds, t \in ParentInputs :
    /\ Len(inflight) < MaxInflight
    /\ ShareStep
    /\ MoveCheck(u, f, t)

MoveEnd == \E k \in 1..Len(inflight) : ShareStep /\ MoveSave(k)

NextMoves ==
  \/ MoveBegin
  \/ MoveEnd

SpecMoves == InitMoves /\ [][NextMoves]_vars

-----------------------------------------------------------------------------
(* Uploads that race: upload requests of one account run concurrently, each *)
(* in two steps around the await of its duplicate lookup.                   *)

RaceUser == "u1"
RaceSize == Bytes(0, 100)
Racers == 1..MaxInflight
RaceParents == {Null, 2}

\* A request not yet received
Waiting ==
  [pc |-> "start", originalName |-> NoName, parentFolder |-> Null, path |-> NullPath,
   existingSame |-> Null, id |-> Null, overlapped |-> FALSE]

InitRace ==
  /\ now = StartDate
  /\ script = <<>>
  /\ inflight = [p \in Racers |-> Waiting]
  /\ nodes = FirstFolders
  /\ nextId = 3
  /\ store = {}
  /\ bulk = 0
  /\ stats = [u \in Users |-> NoStats]
  /\ last = NoRequest
  /\ budget = 0

\* Request p up to the answer of its duplicate lookup: multer has written the
\* bytes, the parent and the quota are checked, the lookup is made.  The
\* request is marked as overlapped, with every request that then stands
\* between its lookup and its save, when there is one.
RaceCheck ==
  \E p \in Racers, oname \in FileNames, parent \in RaceParents :
    LET filePath == [area |-> RaceUser, key |-> FreshKey(nodes, store)]
        written == store \cup {filePath}
        req == [op |-> "upload", user |-> RaceUser, originalName |-> oname,
                size |-> RaceSize, parentFolder |-> parent]
        found == ExistingSame(nodes, RaceUser, oname, RaceSize, parent)
        others == {q \in Racers : q # p /\ inflight[q].pc = "checked"}
    IN  /\ inflight[p].pc = "start"
        /\ Cardinality(store) < MaxObjects
        /\ NoClock
        /\ UNCHANGED <<nodes, nextId, stats, budget, bulk, script>>
        /\ IF parent # Null /\ ~ParentFolderDoc(nodes, RaceUser, parent)
           THEN /\ store' = Unlink(written, filePath)
                /\ last' = req @@ [result |-> "InvalidParentError", id |-> Null]
                /\ inflight' = [inflight EXCEPT ![p].pc = "done"]
           ELSE IF QuotaExceeded(stats[RaceUser], RaceSize)
           THEN /\ store' = Unlink(written, filePath)
                /\ last' = req @@ [result |-> "QuotaExceededError", id |-> Null]
                /\ inflight' = [inflight EXCEPT ![p].pc = "done"]
           ELSE /\ store' = written
                /\ last' = req @@ [result |-> "Checked", id |-> Null]
                /\ inflight' =
                     [q \in Racers |->
                        IF q = p
                        THEN [pc |-> "checked", originalName |-> oname,
                              parentFolder |-> parent, path |-> filePath,
                              existingSame |-> IF found = {} THEN Null ELSE First(found),
                              id |-> Null, overlapped |-> others # {}]
                        ELSE IF q \in others THEN [inflight[q] EXCEPT !.overlapped = TRUE]
                        ELSE inflight[q]]

\* Request p from the answer of its lookup on: the duplicate branch, or
\* newFile.save() and the ledger update.
RaceSave ==
  \E p \in Racers :
    LET r == inflight[p]
        req == [op |-> "upload", user |-> RaceUser, originalName |-> r.originalName,
                size |-> RaceSize, parentFolder |-> r.parentFolder]
    IN  /\ r.pc = "checked"
        /\ NoClock
        /\ UNCHANGED <<store, budget, bulk, script>>
        /\ IF r.existingSame # Null
           THEN /\ stats' = UpdateUserStats(stats, nodes, RaceUser)
                /\ last' = req @@ [result |-> "Duplicate", id |-> r.existingSame]
                /\ inflight' = [inflight EXCEPT ![p].pc = "done"]
                /\ UNCHANGED <<nodes, nextId>>
           ELSE /\ nextId <= MaxNodes
                /\ nodes' = nodes @@ (nextId :> FileNode(RaceUser, r.originalName, RaceSize,
                                                         r.path, r.parentFolder))
                /\ nextId' = nextId + 1
                /\ stats' = UpdateUserStats(stats, nodes', RaceUser)
                /\ last' = req @@ [result |-> "Created", id |-> nextId]
                /\ inflight' = [inflight EXCEPT ![p].pc = "done", ![p].id = nextId]

NextRace ==
  \/ RaceCheck
  \/ RaceSave

SpecRace == InitRace /\ [][NextRace]_vars

-----------------------------------------------------------------------------
(* The ledger under concurrent uploads: three uploads into one empty        *)
(* account, each in three steps around its awaits.                          *)

LedgerUser == "u1"
LedgerUploads ==
  << [originalName |-> <<"a">>, size |-> Bytes(0, 100)],
     [originalName |-> <<"b">>, size |-> Bytes(0, 200)],
     [originalName |-> <<"c">>, size |-> Bytes(0, 300)] >>

InitLedger ==
  /\ now = StartDate
  /\ script = <<>>
  /\ inflight = [p \in DOMAIN LedgerUploads |-> [pc |-> "start", snapshot |-> NoStats]]
  /\ nodes = <<>>
  /\ nextId = 1
  /\ store = {}
  /\ bulk = 0
  /\ stats = [u \in Users |-> NoStats]
  /\ last = NoRequest
  /\ budget = 0

LedgerSaveStep ==
  \E p \in DOMAIN LedgerUploads :
    /\ inflight[p].pc = "start"
    /\ UploadSave(LedgerUser, LedgerUploads[p].originalName, LedgerUploads[p].size, Null)
    /\ inflight' = [inflight EXCEPT ![p].pc =
                      IF last'.result \in {"Created", "Duplicate"} THEN "saved" ELSE "done"]
    /\ NoClock
    /\ UNCHANGED <<budget, bulk, script>>

LedgerReadStep ==
  \E p \in DOMAIN LedgerUploads :
    /\ inflight[p].pc = "saved"
    /\ inflight' = [inflight EXCEPT ![p].pc = "read",
                                    ![p].snapshot = LedgerRead(nodes, LedgerUser)]
    /\ NoClock
    /\ UNCHANGED <<nodes, nextId, store, stats, last, budget, bulk, script>>

LedgerWriteStep ==
  \E p \in DOMAIN LedgerUploads :
    /\ inflight[p].pc = "read"
    /\ stats' = LedgerWrite(stats, LedgerUser, inflight[p].snapshot)
    /\ inflight' = [inflight EXCEPT ![p].pc = "done"]
    /\ NoClock
    /\ UNCHANGED <<nodes, nextId, store, last, budget, bulk, script>>

NextLedger ==
  \/ LedgerSaveStep
  \/ LedgerReadStep
  \/ LedgerWriteStep

SpecLedger == InitLedger /\ [][NextLedger]_vars

-----------------------------------------------------------------------------
(* A client script: six requests of one account with no nodes, sent one     *)
(* after the other in an order fixed at the start.                          *)

ScriptUser == "u1"
Scenario == <<"createFolder", "upload", "rename", "move", "trash", "emptyTrash">>

\* Every order of the six requests
Orders ==
  {o \in [DOMAIN Scenario -> {Scenario[k] : k \in DOMAIN Scenario}] :
     \A a \in DOMAIN o, b \in DOMAIN o : a # b => o[a] # o[b]}

\* The ids the client got in the responses: of the folder and of the file it
\* created, MissingId while it has none.
ScriptFolder ==
  LET S == {i \in DOMAIN nodes : nodes[i].owner = ScriptUser /\ nodes[i].isFolder}
  IN  IF S = {} THEN MissingId ELSE CHOOSE i \in S : TRUE
ScriptFile ==
  LET S == {i \in DOMAIN nodes : nodes[i].owner = ScriptUser /\ ~nodes[i].isFolder}
  IN  IF S = {} THEN MissingId ELSE CHOOSE i \in S : TRUE

InitScenario ==
  /\ now = StartDate
  /\ inflight = <<>>
  /\ script \in {[todo |-> o, done |-> <<>>] : o \in Orders}
  /\ nodes = <<>>
  /\ nextId = 1
  /\ store = {}
  /\ bulk = 0
  /\ stats = [u \in Users |-> NoStats]
  /\ last = NoRequest
  /\ budget = 0

Send(request) ==
  /\ script.todo # <<>>
  /\ Head(script.todo) = request
  /\ script' = [todo |-> Tail(script.todo), done |-> Append(script.done, request)]
  /\ UNCHANGED <<budget, bulk, inflight>>

ScriptCreateFolder ==
  Send("createFolder") /\ NoClock /\ CreateFolder(ScriptUser, <<"Docs">>, Null)

ScriptUpload ==
  Send("upload") /\ NoClock /\ Upload(ScriptUser, <<"a.txt">>, Bytes(0, 500), ScriptFolder)

ScriptRename ==
  Send("rename") /\ NoClock /\ Rename(ScriptUser, ScriptFolder, <<"Documents">>)

ScriptMove == Send("move") /\ NoClock /\ Move(ScriptUser, ScriptFile, Null, NoName)

ScriptTrash == Send("trash") /\ Trash(ScriptUser, ScriptFolder)

ScriptEmptyTrash == Send("emptyTrash") /\ NoClock /\ EmptyTrash(ScriptUser)

NextScenario ==
  \/ ScriptCreateFolder
  \/ ScriptUpload
  \/ ScriptRename
  \/ ScriptMove
  \/ ScriptTrash
  \/ ScriptEmptyTrash

SpecScenario == InitScenario /\ [][NextScenario]_vars

-----------------------------------------------------------------------------
(* Notions the properties are stated in *)

\* The parent chain from cur ends at root or at a missing node.
RECURSIVE ChainEnds(_, _, _)
ChainEnds(ns, cur, seen) ==
  IF cur = Null \/ cur \notin DOMAIN ns THEN TRUE
  ELSE IF cur \in seen THEN FALSE
  ELSE ChainEnds(ns, ns[cur].parentFolder, seen \cup {cur})

\* The nodes on the parent chain above i.
RECURSIVE ChainFrom(_, _, _)
ChainFrom(ns, cur, acc) ==
  IF cur = Null \/ cur \notin DOMAIN ns \/ cur \in acc THEN acc
  ELSE ChainFrom(ns, ns[cur].parentFolder, acc \cup {cur})

AncestorsOf(ns, i) == ChainFrom(ns, ns[i].parentFolder, {})

IsFolderOf(ns, u, i) == i \in DOMAIN ns /\ ns[i].owner = u /\ ns[i].isFolder

ValidParent(ns, u, p) ==
  p \in DOMAIN ns /\ ns[p].owner = u /\ ns[p].isFolder /\ ~ns[p].inTrash

-----------------------------------------------------------------------------
\* C1: in every reachable state the parent chain of every node, followed via
\* parentFolder, reaches root or a missing node in finitely many steps.
C1_ParentChainsEnd ==
  \A i \in DOMAIN nodes : ChainEnds(nodes, i, {})

\* C2: for folders A and B of one account, move(A, B) is rejected with
\* CycleError and leaves A in place when B is a proper descendant of A; when B
\* is neither A nor a descendant of A it succeeds, sets A.parentFolder = B, and
\* afterwards checkIfSubfolder(B, A) is false.
C2_MoveRejectsExactlyCycles ==
  [][\A u \in Requesters : \A a \in DOMAIN nodes, b \in DOMAIN nodes :
       (/\ IsFolderOf(nodes, u, a) /\ IsFolderOf(nodes, u, b) /\ a # b
        /\ last'.op = "move"
        /\ Move(u, a, b, NoName))
       => IF a \in AncestorsOf(nodes, b)
          THEN last'.result = "CycleError" /\ nodes'[a].parentFolder = nodes[a].parentFolder
          ELSE /\ last'.result = "Moved"
               /\ nodes'[a].parentFolder = b
               /\ CheckIfSubfolder(nodes', StringId(b), StringId(a)) = "false"]_vars

\* C3: move fails with SelfMoveError whenever the resolved target folder is
\* the node being moved, whether the target was given by targetFolderId or
\* resolved from targetFolderName, and the node is left unchanged.
C3_SelfMoveError ==
  [][\A u \in Requesters : \A a \in DOMAIN nodes :
       (/\ IsFolderOf(nodes, u, a)
        /\ last'.op = "move"
        /\ \/ Move(u, a, a, NoName)
           \/ /\ a \in FoldersNamed(nodes, u, nodes[a].name)
              /\ MoveTo(u, a, ObjectId(a)))
       => last'.result = "SelfMoveError" /\ nodes' = nodes]_vars

\* C4: in every reachable state, no two non-trashed folders of one owner under
\* one parent have the same name.
C4_UniqueFolderNames ==
  \A i \in DOMAIN nodes, j \in DOMAIN nodes :
    (/\ i # j
     /\ nodes[i].isFolder /\ nodes[j].isFolder
     /\ ~nodes[i].inTrash /\ ~nodes[j].inTrash
     /\ nodes[i].owner = nodes[j].owner
     /\ nodes[i].parentFolder = nodes[j].parentFolder)
    => nodes[i].name # nodes[j].name

\* C5: in every reachable state, every node's parentFolder is null or the id
\* of an existing, non-trashed folder owned by the same account.
C5_ParentFolderValid ==
  \A i \in DOMAIN nodes :
    nodes[i].parentFolder = Null \/ ValidParent(nodes, nodes[i].owner, nodes[i].parentFolder)

\* The stored usage plus an incoming size is above the ceiling of
\* QuotaCeilingMiB MiB (16106127360 bytes).
AboveCeiling(used, size) ==
  LET lo == used.b + size.b
      hi == used.m + size.m + (lo \div MiB)
  IN  hi > QuotaCeilingMiB \/ (hi = QuotaCeilingMiB /\ lo % MiB > 0)

StoredUsage(u) == IF stats[u].present THEN stats[u].usedStorage ELSE Zero

SameFile(ns, u, n, z, p) ==
  {i \in DOMAIN ns : /\ ns[i].owner = u /\ ~ns[i].isFolder /\ ~ns[i].inTrash
                     /\ ns[i].originalName = n /\ ns[i].size = z
                     /\ ns[i].parentFolder = p}

\* The request being answered is an upload / a batch upload by u.
IsUpload(u) == last'.op = "upload" /\ last'.user = u
IsAnyUpload(u) == last'.op \in {"upload", "uploadMultiple"} /\ last'.user = u

\* The second of two uploads of one (originalName, size, parentFolder) that
\* follow one another: the first has just created node last.id.
SecondUpload(u) ==
  /\ last.op = "upload" /\ last.result = "Created" /\ last.user = u
  /\ IsUpload(u)
  /\ last'.originalName = last.originalName
  /\ last'.size = last.size
  /\ last'.parentFolder = last.parentFolder

\* C6 (as claimed): uploading the same (originalName, size) into the same
\* parent twice in a row yields exactly one non-trashed node; the second upload
\* succeeds, reports the first node's id and creates no node.
C6_SecondUploadSucceeds ==
  [][\A u \in Requesters :
       SecondUpload(u)
       => /\ last'.result = "Duplicate"
          /\ last'.id = last.id
          /\ nodes' = nodes
          /\ SameFile(nodes', u, last.originalName, last.size, last.parentFolder)
               = {last.id}]_vars

\* C6 (amended): the second upload yields exactly one non-trashed node and
\* creates none; it succeeds and reports the first node's id unless the stored
\* usage plus the size is above the ceiling, when it fails with
\* QuotaExceededError.
C6_SecondUploadCreatesNoNode ==
  [][\A u \in Requesters :
       SecondUpload(u)
       => /\ nodes' = nodes
          /\ SameFile(nodes', u, last.originalName, last.size, last.parentFolder)
               = {last.id}
          /\ IF AboveCeiling(StoredUsage(u), last.size)
             THEN last'.result = "QuotaExceededError"
             ELSE last'.result = "Duplicate" /\ last'.id = last.id]_vars

C6_Witness ==
  /\ last.op = "upload" /\ last.result = "Duplicate"
  /\ SameFile(nodes, last.user, last.originalName, last.size, last.parentFolder)
       = {last.id}

\* C7: after an upload that is detected as a duplicate the received bytes are
\* not retained: the store holds no object written by that upload, and every
\* object in the account's area is the path of some node.
C7_DuplicateBytesDiscarded ==
  [][\A u \in Requesters :
       (IsUpload(u) /\ last'.result = "Duplicate")
       => /\ store' \subseteq store
          /\ \A o \in store' : o.area = u => \E i \in DOMAIN nodes' : nodes'[i].path = o]_vars

\* C8: an upload whose non-null parentFolder is not an existing, non-trashed
\* folder of the uploader fails with InvalidParentError; no node is created,
\* the quota record is unchanged and the object written for it is removed.
C8_InvalidParentRejected ==
  [][\A u \in Requesters :
       (/\ IsAnyUpload(u)
        /\ last'.parentFolder # Null
        /\ ~ValidParent(nodes, u, last'.parentFolder))
       => /\ last'.result = "InvalidParentError"
          /\ nodes' = nodes /\ stats' = stats /\ store' = store]_vars

C8_Witness ==
  /\ last.op \in {"upload", "uploadMultiple"}
  /\ last.result = "InvalidParentError"

\* What C9 says of the upload or batch being answered (size: the total).
QuotaVerdict(u) ==
  /\ last'.result = "QuotaExceededError" <=> AboveCeiling(StoredUsage(u), last'.size)
  /\ last'.result = "QuotaExceededError" => nodes' = nodes /\ store' = store

\* C9 (as claimed): an upload, or a batch taken as the sum of its sizes, fails
\* with QuotaExceededError exactly when stored usage + incoming size is above
\* the ceiling; then no node is created and every object written is removed.
C9_QuotaExceededExactly ==
  [][\A u \in Requesters : IsAnyUpload(u) => QuotaVerdict(u)]_vars

\* C9 (amended): the same, for an upload whose parentFolder is null or an
\* existing, non-trashed folder of the uploader.
C9_QuotaExceededUnderValidParent ==
  [][\A u \in Requesters :
       (/\ IsAnyUpload(u)
        /\ last'.parentFolder = Null \/ ValidParent(nodes, u, last'.parentFolder))
       => QuotaVerdict(u)]_vars

C9_Witness ==
  /\ last.op \in {"upload", "uploadMultiple"}
  /\ last.result = "QuotaExceededError"
  /\ last.parentFolder = Null \/ ValidParent(nodes, last.user, last.parentFolder)

\* C10: after every completed createFolder, upload, batch upload, copy, trash,
\* restore, permanentDelete and emptyTrash, the owner's stored quota record is
\* the recompute over the owner's current non-trashed nodes.
C10_StatsRecomputed ==
  \A u \in Requesters :
    (/\ last.op \in {"createFolder", "upload", "uploadMultiple", "copy", "trash",
                     "restore", "permanentDelete", "emptyTrash"}
     /\ last.result \in {"Created", "Duplicate", "Copied", "Trashed", "Restored",
                         "Deleted", "Emptied"})
    => stats[u] = Recompute(nodes, u)

\* The request being answered is a restore that directly follows the trash of
\* the same, until then non-trashed, node of u.
RestoreAfterTrash(u) ==
  /\ last.op = "trash" /\ last.result = "Trashed"
  /\ last.before.owner = u /\ ~last.before.inTrash
  /\ last'.op = "restore" /\ last'.result = "Restored" /\ last'.id = last.id

RestoredNode(u) ==
  LET n == nodes'[last.id]
  IN  /\ ~n.inTrash /\ n.deletedAt = NoDate /\ n.permanentDeleteAt = NoDate
      /\ n.name = last.before.name /\ n.parentFolder = last.before.parentFolder
      /\ n.path = last.before.path /\ n.size = last.before.size
      /\ n.sharedWith = last.before.sharedWith

\* C12: trash followed by restore of the same node returns it to inTrash=false,
\* deletedAt=null, permanentDeleteAt=null with name, parentFolder, path, size
\* and sharedWith as before the trash, and the owner's quota record is the one
\* from before the trash (same usedStorage, file and folder counts).
C12_TrashRestoreRoundTrip ==
  [][\A u \in Users :
       RestoreAfterTrash(u)
       => /\ RestoredNode(u)
          /\ stats'[u].usedStorage = last.statsBefore.usedStorage
          /\ stats'[u].totalFiles = last.statsBefore.totalFiles
          /\ stats'[u].totalFolders = last.statsBefore.totalFolders]_vars

\* C13: in every reachable state and for every node, inTrash is true iff
\* deletedAt is non-null iff permanentDeleteAt is non-null, and for a trashed
\* node permanentDeleteAt = deletedAt + 30 days.
C13_TrashDatesAgree ==
  \A i \in DOMAIN nodes :
    /\ nodes[i].inTrash <=> nodes[i].deletedAt # NoDate
    /\ nodes[i].inTrash <=> nodes[i].permanentDeleteAt # NoDate
    /\ nodes[i].inTrash
         => nodes[i].permanentDeleteAt = AddDays(nodes[i].deletedAt, RetentionDays)

\* The proper descendants of folder f: the nodes with f on their parent chain.
DescendantsOf(ns, f) == {i \in DOMAIN ns \ {f} : f \in AncestorsOf(ns, i)}

\* The files and folders of u that are not in trash, counted from the nodes.
LiveCount(ns, u, folder) ==
  Cardinality({i \in DOMAIN ns : /\ ns[i].owner = u /\ ~ns[i].inTrash
                                    /\ ns[i].isFolder = folder})

\* C14: trash(folder) changes only that folder's inTrash, deletedAt and
\* permanentDeleteAt: every other node, so every descendant, is unchanged
\* (keeps its inTrash and its parentFolder), and the non-trashed descendants
\* remain counted in the owner's quota record.
C14_TrashDoesNotCascade ==
  [][\A u \in Users :
       (/\ last'.op = "trash" /\ last'.result = "Trashed"
        /\ last'.before.owner = u /\ last'.before.isFolder)
       => LET f == last'.id
          IN  /\ DOMAIN nodes' = DOMAIN nodes
              /\ \A i \in DOMAIN nodes \ {f} : nodes'[i] = nodes[i]
              /\ nodes'[f] = [nodes[f] EXCEPT !.inTrash = nodes'[f].inTrash,
                                              !.deletedAt = nodes'[f].deletedAt,
                                              !.permanentDeleteAt = nodes'[f].permanentDeleteAt]
              /\ stats'[u].totalFiles = LiveCount(nodes', u, FALSE)
              /\ stats'[u].totalFolders = LiveCount(nodes', u, TRUE)]_vars

\* A folder with a non-trashed descendant has just been trashed.
C14_Witness ==
  /\ last.op = "trash" /\ last.result = "Trashed" /\ last.before.isFolder
  /\ \E i \in DescendantsOf(nodes, last.id) :
       ~nodes[i].inTrash /\ nodes[i].parentFolder = last.id

\* C15: after permanentDelete(node) by the owner succeeds the node record no
\* longer exists (a get by the owner finds nothing) and the content store has
\* no object at the node's former path; a permanentDelete by the owner also
\* succeeds when the object at path is already missing or path is null.
C15_PermanentDeleteRemoves ==
  [][\A u \in Users :
       (/\ last'.op = "permanentDelete" /\ last'.user = u
        /\ OwnedBy(nodes, u, last'.fileId))
       => /\ last'.result = "Deleted"
          /\ last'.fileId \notin DOMAIN nodes'
          /\ ~OwnedBy(nodes', u, last'.fileId)
          /\ ~ExistsSync(store', nodes[last'.fileId].path)]_vars

\* A file whose object was already gone has just been deleted.
C15_Witness ==
  /\ last.op = "permanentDelete" /\ last.result = "Deleted"
  /\ ~last.before.isFolder /\ ~last.hadObject
  /\ last.id \notin DOMAIN nodes

\* The nodes of u that are in trash.
TrashedOf(ns, u) == {i \in DOMAIN ns : ns[i].owner = u /\ ns[i].inTrash}

\* C16: emptyTrash(owner) deletes exactly the owner's nodes with inTrash=true
\* together with their content-store objects and returns their count; every
\* non-trashed node of the owner (also a non-trashed child of a trashed
\* folder) and every node of any other account is unchanged.
C16_EmptyTrashExact ==
  [][\A u \in Users :
       (last'.op = "emptyTrash" /\ last'.user = u)
       => /\ last'.result = "Emptied"
          /\ DOMAIN nodes' = DOMAIN nodes \ TrashedOf(nodes, u)
          /\ \A i \in DOMAIN nodes' : nodes'[i] = nodes[i]
          /\ \A i \in TrashedOf(nodes, u) : ~ExistsSync(store', nodes[i].path)
          /\ last'.deletedCount = Cardinality(TrashedOf(nodes, u))]_vars

\* A trash has just been emptied of a folder: its non-trashed child and the
\* other account's trashed node are still there.
C16_Witness ==
  /\ last.op = "emptyTrash" /\ last.deletedCount > 0
  /\ \E i \in DOMAIN nodes : nodes[i].owner # last.user /\ nodes[i].inTrash
  /\ \E i \in DOMAIN nodes :
       /\ nodes[i].owner = last.user /\ ~nodes[i].inTrash
       /\ nodes[i].parentFolder # Null /\ nodes[i].parentFolder \notin DOMAIN nodes

\* C20: in every reachable state a node's publicUrl is non-null iff isPublic
\* is true, no two nodes have the same non-null publicUrl, and no folder is
\* public, after any sequence of share-link, revoke-link, copy, trash and
\* restore.
C20_PublicLinkState ==
  /\ \A i \in DOMAIN nodes :
       /\ nodes[i].publicUrl # Null <=> nodes[i].isPublic
       /\ nodes[i].isFolder => ~nodes[i].isPublic
  /\ \A i \in DOMAIN nodes, j \in DOMAIN nodes :
       (i # j /\ nodes[i].publicUrl # Null) => nodes[i].publicUrl # nodes[j].publicUrl

\* A file and its copy both carry a public link.
C20_Witness ==
  \E i \in DOMAIN nodes, j \in DOMAIN nodes :
    /\ i # j /\ nodes[i].isPublic /\ nodes[j].isPublic
    /\ nodes[i].path = nodes[j].path


\* C18: a failure of the Activity Recorder (logActivity throws) does not change
\* the outcome of the primary operation: a batch upload still reports success,
\* and every file node the request saved still exists with its content-store
\* object present.
C18_LogFailureHarmless ==
  [][last'.op = "uploadMultiple" =>
       /\ last'.result # "ServerError"
       /\ \A i \in DOMAIN nodes' \ DOMAIN nodes :
            ~nodes'[i].isFolder => ExistsSync(store', nodes'[i].path)]_vars


\* C19: in every reachable state each node's sharedWith holds at most one entry
\* per recipient, after any sequence of share and remove-share requests,
\* including two share requests for the same node and recipient whose check
\* and save steps interleave.
C19_OneEntryPerRecipient ==
  \A i \in DOMAIN nodes :
    \A a \in 1..Len(nodes[i].sharedWith), b \in 1..Len(nodes[i].sharedWith) :
      a # b => nodes[i].sharedWith[a].user # nodes[i].sharedWith[b].user


\* C11: after three uploads of distinct files of sizes 100, 200 and 300 bytes
\* into one empty account have all completed, the stored usedStorage is 600,
\* for every order of the uploads and every interleaving of their steps (node
\* save, ledger read of the node set, ledger write).
C11_LedgerAfterUploads ==
  (/\ DOMAIN inflight = DOMAIN LedgerUploads
   /\ \A p \in DOMAIN inflight : inflight[p].pc = "done")
    => stats[LedgerUser].usedStorage = Bytes(0, 600)


\* The nodes of the account that sit at root, trashed or not
AtRoot(u) == {i \in DOMAIN nodes : nodes[i].owner = u /\ nodes[i].parentFolder = Null}

\* C17: running in order createFolder "Docs" at root, upload "a.txt" (500
\* bytes) into Docs, rename Docs to "Documents", move a.txt to root, trash
\* Documents, emptyTrash ends in a state where the root contains exactly the
\* file a.txt (500 bytes) and no folder, and the quota record has usedStorage
\* 500 and totalFolders 0.
C17_ScenarioEndState ==
  (script # <<>> /\ script.todo = <<>> /\ script.done = Scenario) =>
    /\ \E f \in DOMAIN nodes :
         /\ AtRoot(ScriptUser) = {f}
         /\ ~nodes[f].isFolder /\ ~nodes[f].inTrash
         /\ nodes[f].name = <<"a.txt">> /\ nodes[f].size = Bytes(0, 500)
    /\ \A i \in DOMAIN nodes : ~nodes[i].isFolder
    /\ stats[ScriptUser].present
    /\ stats[ScriptUser].usedStorage = Bytes(0, 500)
    /\ stats[ScriptUser].totalFolders = 0

\* The scenario has run to its end, every request answered with success.
C17_Witness ==
  /\ script # <<>> /\ script.todo = <<>> /\ script.done = Scenario
  /\ last.op = "emptyTrash" /\ last.deletedCount = 1
  /\ ScriptFile # MissingId /\ ExistsSync(store, nodes[ScriptFile].path)


\* C21: after share-link on a non-trashed file whose content-store object
\* exists, an unauthenticated public download request carrying the returned
\* token succeeds and serves that file, for as long as the link is not revoked
\* and the file is neither trashed nor deleted.
C21_PublicDownloadServes ==
  [][last'.op = "publicDownload" =>
       \A f \in DOMAIN nodes :
         (/\ nodes[f].isPublic /\ nodes[f].publicUrl = last'.token
          /\ ~nodes[f].inTrash /\ ~nodes[f].isFolder
          /\ ExistsSync(store, nodes[f].path))
           => last'.result = "Served" /\ last'.id = f]_vars


\* This step is what one of the nine handlers does for account u asking for
\* node f.
RequestOn(u, f) ==
  \/ \E raw \in RawNames : Rename(u, f, raw)
  \/ \E t \in ParentInputs : Move(u, f, t, NoName)
  \/ \E t \in ParentInputs : Copy(u, f, t)
  \/ Trash(u, f)
  \/ Restore(u, f)
  \/ PermanentDelete(u, f)
  \/ \E e \in TargetInputs, p \in Permissions : ShareCheck(u, f, e, p)
  \/ ShareLink(u, f)
  \/ RevokeLink(u, f)

\* The same, for a request that passes the handler's validation of its body: a
\* name that is not blank, the address of another existing account.
WellFormedRequestOn(u, f) ==
  \/ \E raw \in RawNames : Trim(raw) # <<>> /\ Rename(u, f, raw)
  \/ \E t \in ParentInputs : Move(u, f, t, NoName)
  \/ \E t \in ParentInputs : Copy(u, f, t)
  \/ Trash(u, f)
  \/ Restore(u, f)
  \/ PermanentDelete(u, f)
  \/ \E e \in Users \ {u}, p \in Permissions : ShareCheck(u, f, e, p)
  \/ ShareLink(u, f)
  \/ RevokeLink(u, f)

Denials == {"NotFound", "ValidationError", "UserNotFound", "SelfShareError"}

\* C22 as stated: rename, move, copy, trash, restore, permanentDelete, share,
\* share-link and revoke-link requested by an account that does not own the
\* node, even one listed in its sharedWith with permission edit, fail with
\* NotFound and leave every node, the content store and every quota record
\* unchanged.
C22_NonOwnerGetsNotFound ==
  [][\A u \in Users, f \in DOMAIN nodes :
       (nodes[f].owner # u /\ RequestOn(u, f)) =>
         /\ last'.result = "NotFound"
         /\ UNCHANGED <<nodes, store, stats>>]_vars

\* C22, amended: such a request fails and leaves every node, the content store
\* and every quota record unchanged; it fails with NotFound when its body
\* passes validation, and with the handler's validation error otherwise (a
\* blank name for rename; for share no address, the address of no account or
\* the requester's own).
C22_NonOwnerDenied ==
  [][\A u \in Users, f \in DOMAIN nodes :
       /\ (nodes[f].owner # u /\ RequestOn(u, f)) =>
            /\ last'.result \in Denials
            /\ UNCHANGED <<nodes, store, stats>>
       /\ (nodes[f].owner # u /\ WellFormedRequestOn(u, f)) =>
            last'.result = "NotFound"]_vars

\* The account the file is shared with for editing asked to delete it and was
\* refused.
C22_Witness ==
  /\ last.op = "permanentDelete" /\ last.result = "NotFound"
  /\ Exists(nodes, last.fileId) /\ nodes[last.fileId].owner # last.user
  /\ \E k \in 1..Len(nodes[last.fileId].sharedWith) :
       /\ nodes[last.fileId].sharedWith[k].user = last.user
       /\ nodes[last.fileId].sharedWith[k].permission = "edit"


\* C23: createFolder fails with ValidationError when the name is empty after
\* trimming and with ConflictError when a non-trashed folder with the same
\* trimmed name already exists under the same parent for this owner, creating
\* no node in either case; otherwise it creates exactly one non-trashed folder
\* node with the trimmed name, size 0 and path null under the given parent.
C23_CreateFolderOutcomes ==
  [][\A u \in Users, raw \in RawNames, p \in ParentInputs :
       CreateFolder(u, raw, p) =>
         IF Trim(raw) = <<>>
         THEN last'.result = "ValidationError" /\ nodes' = nodes
         ELSE IF \E i \in DOMAIN nodes :
                   /\ nodes[i].isFolder /\ ~nodes[i].inTrash /\ nodes[i].owner = u
                   /\ nodes[i].name = Trim(raw) /\ nodes[i].parentFolder = p
         THEN last'.result = "ConflictError" /\ nodes' = nodes
         ELSE /\ last'.result = "Created"
              /\ \E n \in DOMAIN nodes' :
                   /\ DOMAIN nodes' = DOMAIN nodes \cup {n} /\ n \notin DOMAIN nodes
                   /\ nodes'[n].isFolder /\ ~nodes'[n].inTrash /\ nodes'[n].owner = u
                   /\ nodes'[n].name = Trim(raw) /\ nodes'[n].size = Zero
                   /\ nodes'[n].path = NullPath /\ nodes'[n].parentFolder = p
              /\ \A i \in DOMAIN nodes : nodes'[i] = nodes[i]]_vars

\* A folder was created where a folder of the same name and owner lies in the
\* trash.
C23_Witness ==
  /\ last.op = "createFolder" /\ last.result = "Created"
  /\ \E j \in DOMAIN nodes :
       /\ nodes[j].isFolder /\ nodes[j].inTrash
       /\ nodes[j].parentFolder = nodes[last.id].parentFolder
       /\ nodes[j].owner = nodes[last.id].owner /\ nodes[j].name = nodes[last.id].name


\* C24: move with a non-null target that is not an existing, non-trashed
\* folder owned by the requesting account (missing, a file, trashed, or owned
\* by another account) fails with NotFoundError and leaves the moved node's
\* parentFolder unchanged; a successful move changes only parentFolder (and
\* updatedAt) of the moved node.
C24_MoveTargetChecked ==
  [][\A u \in Users, f \in DOMAIN nodes, t \in ReqIds :
       Move(u, f, t, NoName) =>
         /\ ~(/\ Exists(nodes, t) /\ nodes[t].isFolder
              /\ ~nodes[t].inTrash /\ nodes[t].owner = u)
              => /\ last'.result = "NotFound"
                 /\ nodes'[f].parentFolder = nodes[f].parentFolder
         /\ last'.result = "Moved" => nodes' = [nodes EXCEPT ![f].parentFolder = t]]_vars


RECURSIVE FoldersAt(_, _, _, _, _)
FoldersAt(ns, u, dirs, i, cur) ==
  IF i > Len(dirs) THEN {cur}
  ELSE UNION {FoldersAt(ns, u, dirs, i + 1, c) :
                c \in {j \in DOMAIN ns : /\ ns[j].isFolder /\ ~ns[j].inTrash
                                         /\ ns[j].owner = u /\ ns[j].name = dirs[i]
                                         /\ ns[j].parentFolder = cur}}

\* C26: in a batch folder upload, for every file with relative path
\* d1/.../dk/f the folder node for d1/.../dk (under the batch's target folder)
\* exists before the file node is created and is the file node's parentFolder;
\* an intermediate folder that already exists as a non-trashed folder with the
\* same name and parent is reused, so the batch never creates a second folder
\* with that name under that parent.
C26_FoldersBeforeFiles ==
  [][last'.op = "uploadMultiple" =>
       LET u == last'.user
           p == last'.parentFolder
           new == DOMAIN nodes' \ DOMAIN nodes
       IN
       \A fs \in {b \in BatchFiles : SumFileSizes(b) = last'.size} :
       \A fp \in BatchPaths(fs) \ {<<>>} :
         \/ /\ \A n \in new :
                 ~nodes'[n].isFolder =>
                   \E i \in 1..Len(fs) :
                     /\ nodes'[n].originalName = fs[i].originalName
                     /\ nodes'[n].parentFolder \in FoldersAt(nodes', u, fp[i], 1, p)
                     /\ nodes'[n].parentFolder \in new => nodes'[n].parentFolder < n
            /\ \A n \in new :
                 nodes'[n].isFolder =>
                   ~\E j \in DOMAIN nodes' :
                      /\ j # n /\ nodes'[j].isFolder /\ ~nodes'[j].inTrash
                      /\ nodes'[j].owner = u /\ nodes'[j].name = nodes'[n].name
                      /\ nodes'[j].parentFolder = nodes'[n].parentFolder
         \/ ~UploadMultiple(u, fs, fp, p)]_vars

\* A batch with path a/b sent to the root, where the account already had its
\* folder a: a was reused, b was created in it and holds the file.
C26_Witness ==
  /\ last.op = "uploadMultiple" /\ last.result = "Created" /\ last.parentFolder = Null
  /\ \E k \in 1..Len(last.ids) :
       LET q == nodes[last.ids[k]].parentFolder
       IN  /\ q # Null /\ q > 2 /\ q < last.ids[k]
           /\ nodes[q].isFolder /\ nodes[q].name = <<"b">> /\ nodes[q].parentFolder = 2
           /\ nodes[2].isFolder /\ nodes[2].name = <<"a">> /\ ~nodes[2].inTrash


\* C27: when two move requests of the same account interleave (each reads its
\* node and target, runs the cycle check, then saves), for example move(A, B)
\* and move(B, A) on sibling folders, every resulting state is still acyclic:
\* no folder becomes its own ancestor.
C27_InterleavedMovesAcyclic ==
  \A i \in DOMAIN nodes : nodes[i].isFolder => i \notin AncestorsOf(nodes, i)


\* C28: checkIfSubfolder, and therefore move, terminates in every state,
\* including a state whose parent chain from the target contains a cycle that
\* does not pass through the searched node; it then stops after a bounded
\* number of steps (and move reports IntegrityError) instead of looping forever.
C28_CheckIfSubfolderReturns ==
  \A t \in DOMAIN nodes, s \in DOMAIN nodes :
    CheckIfSubfolder(nodes, StringId(t), StringId(s)) \in {"true", "false"}


\* Two non-trashed file nodes of one account with the same originalName, size
\* and parentFolder
Twins(i, j) ==
  /\ i # j /\ ~nodes[i].isFolder /\ ~nodes[j].isFolder
  /\ ~nodes[i].inTrash /\ ~nodes[j].inTrash
  /\ nodes[i].owner = nodes[j].owner /\ nodes[i].originalName = nodes[j].originalName
  /\ nodes[i].size = nodes[j].size /\ nodes[i].parentFolder = nodes[j].parentFolder

\* C29: there is an interleaving of two concurrent uploads of the same
\* (originalName, size, parentFolder) by one account in which both pass the
\* duplicate check before either saves, ending with two non-trashed nodes for
\* that triple (the witness); with non-overlapping uploads this state is not
\* reachable by upload alone: two such nodes were saved by two requests that
\* overlapped.
C29_TwinsOnlyByOverlap ==
  \A i \in DOMAIN nodes, j \in DOMAIN nodes :
    Twins(i, j) =>
      \E p \in Racers, q \in Racers :
        /\ p # q /\ inflight[p].id = i /\ inflight[q].id = j
        /\ inflight[p].overlapped /\ inflight[q].overlapped
        /\ inflight[p].existingSame = Null /\ inflight[q].existingSame = Null

\* Both uploads have completed and left two nodes for one triple.
C29_Witness ==
  /\ \A p \in Racers : inflight[p].pc = "done"
  /\ \E i \in DOMAIN nodes, j \in DOMAIN nodes : Twins(i, j)


\* C30: in a batch upload that passes the parent and quota checks, a file that
\* duplicates a node existing before the request (same owner, originalName,
\* size and resolved parent, not in trash) is skipped without error: the
\* request succeeds, reports an existing duplicate's id at that file's
\* position, and every file node the request saved has its content-store
\* object present once the request has returned.
C30_DuplicateSkipped ==
  [][last'.op = "uploadMultiple"
       /\ last'.result \notin {"InvalidParentError", "QuotaExceededError"} =>
     LET u == last'.user
         p == last'.parentFolder
     IN  \A fs \in {b \in BatchFiles : SumFileSizes(b) = last'.size} :
           \A fp \in BatchPaths(fs) :
             LET dirs == MakeAllDirs([ns |-> nodes, nid |-> nextId, map |-> <<>>,
                                      ok |-> TRUE], u, fp, 1, p)
                 resolved(i) ==
                   IF fp = <<>> THEN p
                   ELSE LET hits == {j \in 1..Len(fp[i]) :
                                       SubSeq(fp[i], 1, j) \in DOMAIN dirs.map}
                        IN  IF hits = {} THEN p
                            ELSE dirs.map[SubSeq(fp[i], 1,
                                   CHOOSE j \in hits : \A h \in hits : h <= j)]
                 twins(i) == {n \in DOMAIN nodes :
                                /\ nodes[n].owner = u
                                /\ ~nodes[n].isFolder
                                /\ ~nodes[n].inTrash
                                /\ nodes[n].originalName = fs[i].originalName
                                /\ nodes[n].size = fs[i].size
                                /\ nodes[n].parentFolder = resolved(i)}
             IN  \/ \A i \in 1..Len(fs) : twins(i) = {}
                 \/ /\ last'.result = "Created"
                    /\ Len(last'.ids) = Len(fs)
                    /\ \A i \in 1..Len(fs) : twins(i) # {} => last'.ids[i] \in twins(i)
                    /\ \A n \in DOMAIN nodes' \ DOMAIN nodes :
                         ~nodes'[n].isFolder => ExistsSync(store', nodes'[n].path)
                 \/ ~UploadMultiple(u, fs, fp, p)]_vars

-----------------------------------------------------------------------------
(* GET /:fileId/download, and its search for a file whose path is gone     *)

\* File names here are sequences of characters.
\* String.prototype.toLowerCase
LowerChar(c) == IF c = "A" THEN "a" ELSE IF c = "B" THEN "b" ELSE c
ToLowerCase(s) == [i \in 1..Len(s) |-> LowerChar(s[i])]

\* String.prototype.includes
Includes(s, t) == \E i \in 0..(Len(s) - Len(t)) : SubSeq(s, i + 1, i + Len(t)) = t

\* path.extname: from the last dot on, unless that dot opens the name
ExtName(name) ==
  LET dots == {i \in 2..Len(name) : name[i] = "."}
  IN  IF dots = {} THEN <<>>
      ELSE SubSeq(name, CHOOSE i \in dots : \A j \in dots : j <= i, Len(name))

\* path.basename(name, path.extname(name))
BaseName(name) == SubSeq(name, 1, Len(name) - Len(ExtName(name)))

\* What the uploads directory may hold besides the object a node was saved
\* with: the files of earlier uploads, by the name multer gave them (stem,
\* "-", unique suffix, extension) and the size fs.statSync reports.
DiskFiles ==
  [area : {"u1"}, key : {1}] \cup [area : {"u1"}, key : {2}] \cup
  [area : {"u1"}, key : {3}] \cup [area : {"u2"}, key : {4}] \cup
  [area : {"u2"}, key : {5}] \cup [area : {"u3"}, key : {7}]

\* The directories of uploads/: one for each account that has uploaded.
Areas == Users \cup {"u3"}

SmallSize == Bytes(0, 100)
OtherSize == Bytes(0, 200)

EntryName(p) ==
  CASE p.key = 1 -> <<"a", "-", "1", ".", "t">>
    [] p.key = 2 -> <<"A", "-", "2", ".", "t">>
    [] p.key = 3 -> <<"b", "-", "3", ".", "t">>
    [] p.key = 4 -> <<"a", "-", "4", ".", "t">>
    [] p.key = 5 -> <<"b", "a", "-", "5", ".", "t">>
    [] p.key = 7 -> <<"a", "-", "7", ".", "t">>

StatSize(p) ==
  CASE p.key = 1 -> Zero
    [] p.key = 2 -> SmallSize
    [] p.key = 3 -> SmallSize
    [] p.key = 4 -> OtherSize
    [] p.key = 5 -> SmallSize
    [] p.key = 7 -> SmallSize

\* fs.readdirSync reports the entries in an order the program does not
\* control: every order of the entries is a listing.
Listings(S) ==
  {s \in [1..Cardinality(S) -> S] : \A i, j \in 1..Cardinality(S) : i # j => s[i] # s[j]}

SizeMatches(file, e) == file.size # Zero /\ StatSize(e) = file.size

NameMatches(file, e) ==
  /\ file.originalName # <<>>
  /\ BaseName(file.originalName) # <<>>
  /\ Includes(ToLowerCase(BaseName(EntryName(e))),
              ToLowerCase(BaseName(file.originalName)))

\* A scan that finds nothing.
ScanDirNothing(file, entries, i, found) == NullPath

\* The loop over the entries of one directory; found is NullPath for null.
RECURSIVE ScanDir(_, _, _, _)
ScanDir(file, entries, i, found) ==
  IF i > Len(entries) THEN found
  ELSE LET e == entries[i]
       IN  IF SizeMatches(file, e) /\ NameMatches(file, e) THEN e
           ELSE IF file.size = Zero /\ NameMatches(file, e) THEN e
           ELSE IF found = NullPath /\ NameMatches(file, e)
           THEN ScanDir(file, entries, i + 1, e)
           ELSE ScanDir(file, entries, i + 1, found)

\* The loop over the directories of uploads/: it stops at the first directory
\* that gave a match of either kind.
RECURSIVE ScanRoot(_, _, _, _)
ScanRoot(file, users, dir, k) ==
  IF k > Len(users) THEN NullPath
  ELSE LET found == ScanDir(file, dir[users[k]], 1, NullPath)
       IN  IF found # NullPath THEN found ELSE ScanRoot(file, users, dir, k + 1)

Fallback(file, users, dir) ==
  LET found == ScanDir(file, dir[file.owner], 1, NullPath)
  IN  IF found # NullPath THEN found ELSE ScanRoot(file, users, dir, 1)

\* File.findOne({ _id, $or: [{ userId }, { 'sharedWith.user': userId }] })
DownloadDoc(ns, u, i) ==
  /\ Exists(ns, i)
  /\ \/ ns[i].owner = u
     \/ \E k \in 1..Len(ns[i].sharedWith) : ns[i].sharedWith[k].user = u

\* users: the listing of uploads/; dir[a]: the listing of uploads/a
Download(u, fileId, users, dir) ==
  LET answer(r, p) == last' = [op |-> "download", result |-> r, id |-> fileId,
                               user |-> u, path |-> p]
  IN  /\ UNCHANGED <<nextId, store, stats>>
      /\ IF ~DownloadDoc(nodes, u, fileId)
         THEN answer("NotFound", NullPath) /\ UNCHANGED nodes
         ELSE IF nodes[fileId].isFolder
         THEN answer("FolderError", NullPath) /\ UNCHANGED nodes
         ELSE IF nodes[fileId].path # NullPath /\ ExistsSync(store, nodes[fileId].path)
         THEN IF LogActivityThrows("download") \/ nodes[fileId].name = NoName
              THEN answer("ServerError", NullPath) /\ UNCHANGED nodes
              ELSE answer("Served", nodes[fileId].path) /\ UNCHANGED nodes
         ELSE LET found == Fallback(nodes[fileId], users, dir)
              IN  IF found = NullPath
                  THEN answer("ContentMissing", NullPath) /\ UNCHANGED nodes
                  ELSE /\ nodes' = [nodes EXCEPT ![fileId].path = found]
                       /\ IF LogActivityThrows("download") \/ nodes[fileId].name = NoName
                          THEN answer("ServerError", NullPath)
                          ELSE answer("Served", found)

\* Downloads: two accounts, each with one file.  The object the file of u1 was
\* saved with is gone (a copy of it was deleted for good, or a failed batch
\* unlinked it), that of u2 may be, and the uploads directory holds any of the
\* files of DiskFiles.
OwnPath(u) == [area |-> u, key |-> IF u = "u1" THEN 6 ELSE 4]
DownloadNames == {<<"a", ".", "t">>, <<"A", ".", "t">>}
DownloadSizes == {Zero, SmallSize}

InitDownload ==
  /\ Idle
  /\ \E n \in DownloadNames, z \in DownloadSizes :
       nodes = (1 :> FileNode("u1", n, z, OwnPath("u1"), Null))
               @@ (2 :> FileNode("u2", <<"a", ".", "t">>, OtherSize, OwnPath("u2"), Null))
               @@ (3 :> FolderNode("u1", <<"a">>, Null))
  /\ nextId = 4
  /\ store \in SUBSET DiskFiles
  /\ bulk = 0
  /\ stats = [u \in Users |-> NoStats]
  /\ last = NoRequest
  /\ budget = MaxDownloadSteps

DoDownload ==
  \E u \in Users, f \in 1..4, users \in Listings(Areas) :
    \E d1 \in Listings({p \in store : p.area = "u1"}),
       d2 \in Listings({p \in store : p.area = "u2"}),
       d3 \in Listings({p \in store : p.area = "u3"}) :
      Tick /\ NoClock /\ Download(u, f, users, [a \in Areas |-> IF a = "u1" THEN d1
                                                              ELSE IF a = "u2" THEN d2
                                                              ELSE d3])

NextDownload == DoDownload

SpecDownload == InitDownload /\ [][NextDownload]_vars

\* A directory entry whose stem contains the stem of the node's originalName,
\* whatever the case of the letters.
StemMatch(file, e) ==
  Includes(ToLowerCase(BaseName(EntryName(e))), ToLowerCase(BaseName(file.originalName)))

ExactMatch(file, e) == StatSize(e) = file.size /\ StemMatch(file, e)

\* C31: when the path of a downloaded node does not resolve, the search binds
\* the node to a candidate that matches both size and name whenever the scope
\* searched holds one: the owner's area if it holds any match by name, all
\* areas otherwise.  A name-only match is taken only when that scope holds no
\* candidate matching both.
C31_ExactMatchPreferred ==
  [][(/\ last'.op = "download"
      /\ last'.result = "Served"
      /\ ~ExistsSync(store, nodes[last'.id].path)) =>
     LET file == nodes[last'.id]
         own == {e \in store : e.area = file.owner}
         scope == IF \E e \in own : StemMatch(file, e) THEN own ELSE store
     IN  (\E e \in scope : ExactMatch(file, e)) => ExactMatch(file, last'.path)]_vars


\* C32: a download of a file node whose path does not resolve: if the uploads
\* directory holds a candidate (a file whose stem contains the node's), the
\* node's path becomes a candidate that exists and the download is served from
\* it; if it holds none, the download fails with ContentMissing and no node
\* changes.
C32_DownloadHeals ==
  [][(/\ last'.op = "download"
      /\ DownloadDoc(nodes, last'.user, last'.id)
      /\ ~nodes[last'.id].isFolder
      /\ ~ExistsSync(store, nodes[last'.id].path)) =>
     LET file == nodes[last'.id]
     IN  IF \E e \in store : StemMatch(file, e)
         THEN /\ last'.result = "Served"
              /\ ExistsSync(store', nodes'[last'.id].path)
              /\ StemMatch(file, nodes'[last'.id].path)
              /\ last'.path = nodes'[last'.id].path
              /\ \A i \in DOMAIN nodes : i # last'.id => nodes'[i] = nodes[i]
         ELSE /\ last'.result = "ContentMissing"
              /\ nodes' = nodes]_vars

\* A download has been served from a path other than the one the node was
\* saved with, and the node now holds that path.
C32_Witness ==
  /\ last.op = "download"
  /\ last.result = "Served"
  /\ nodes[last.id].path = last.path
  /\ last.path # OwnPath(nodes[last.id].owner)
  /\ ExistsSync(store, last.path)

\* C38: a download never binds a node to, nor serves it from, an object that
\* lies in another account's storage area and is the path of a node that
\* account owns.
C38_NoForeignBytes ==
  [][(last'.op = "download" /\ last'.result = "Served") =>
     ~\E j \in DOMAIN nodes' :
        /\ nodes'[j].owner # nodes'[last'.id].owner
        /\ ~nodes'[j].isFolder
        /\ nodes'[j].path = last'.path
        /\ last'.path.area = nodes'[j].owner]_vars

\* C33: a rename by the owner with a name that is not empty after trimming
\* succeeds, also when a non-trashed sibling has that name, and changes the
\* node's name only: every other field of the node, every other node, the
\* content store and the quota records stay as they were.  A rename with an
\* empty or blank name fails with ValidationError and changes nothing.
C33_RenameFrame ==
  [][last'.op = "rename" =>
     \A u \in Users, f \in ReqIds, raw \in RawNames :
       Rename(u, f, raw) =>
         /\ store' = store /\ stats' = stats /\ nextId' = nextId
         /\ IF \A k \in 1..Len(raw) : raw[k] = " "
            THEN last'.result = "ValidationError" /\ nodes' = nodes
            ELSE (f \in DOMAIN nodes /\ nodes[f].owner = u) =>
                   /\ last'.result = "Renamed"
                   /\ DOMAIN nodes' = DOMAIN nodes
                   /\ \A i \in DOMAIN nodes : i # f => nodes'[i] = nodes[i]
                   /\ nodes'[f] = [nodes[f] EXCEPT !.name = Trim(raw)]]_vars

\* A rename has succeeded and left two non-trashed siblings with one name.
C33_Witness ==
  /\ last.op = "rename"
  /\ last.result = "Renamed"
  /\ \E j \in DOMAIN nodes :
       /\ j # last.id
       /\ nodes[j].owner = nodes[last.id].owner
       /\ nodes[j].parentFolder = nodes[last.id].parentFolder
       /\ ~nodes[j].inTrash /\ ~nodes[last.id].inTrash
       /\ nodes[j].name = nodes[last.id].name

\* C34: a restore of a node that does not exist or is not in trash fails with
\* NotFound and changes no node, no content-store object and no quota record.
C34_RestoreNeedsTrash ==
  [][last'.op = "restore" =>
     \A u \in Users, f \in ReqIds :
       (Restore(u, f) /\ (f \notin DOMAIN nodes \/ ~nodes[f].inTrash)) =>
         /\ last'.result = "NotFound"
         /\ nodes' = nodes
         /\ stats' = stats
         /\ store' = store]_vars

\* A restore was refused while the account had nodes and none was in trash.
C34_Witness ==
  /\ last.op = "restore"
  /\ last.result = "NotFound"
  /\ \E i \in DOMAIN nodes : nodes[i].owner \in Requesters /\ ~nodes[i].isFolder
  /\ \A i \in DOMAIN nodes : ~nodes[i].inTrash

\* C35: in every reachable state the path of every file node is an object of
\* the content store, whatever sequence of copy, trash, restore, permanent
\* delete and empty-trash requests has run, including a permanent delete of
\* one of two nodes that share a path after a copy.
C35_PathsResolve ==
  \A i \in DOMAIN nodes : ~nodes[i].isFolder => ExistsSync(store, nodes[i].path)

-----------------------------------------------------------------------------
(* Empty-trash in two steps: its read of the trashed documents with the     *)
(* unlink loop, and its deleteMany; trash and restore requests of the same  *)
(* account may run in between.                                              *)

\* File.find({ userId, inTrash: true }) and the loop of unlinkSync
EmptyFind(u) ==
  LET trashFiles == TrashFiles(nodes, u)
  IN  /\ inflight = <<>>
      /\ store' = store \ {nodes[i].path : i \in trashFiles}
      /\ inflight' = <<[user |-> u, trashFiles |-> trashFiles, storeBefore |-> store]>>
      /\ UNCHANGED <<nodes, nextId, stats, last>>

\* File.deleteMany({ userId, inTrash: true }), updateUserStats, the response
EmptyDeleteMany ==
  /\ inflight # <<>>
  /\ LET u == inflight[1].user
     IN  /\ nodes' = Without(nodes, TrashFiles(nodes, u))
         /\ stats' = UpdateUserStats(stats, nodes', u)
         /\ last' = [op |-> "emptyTrash", result |-> "Emptied", id |-> Null, user |-> u,
                     deletedCount |-> Cardinality(inflight[1].trashFiles)]
  /\ inflight' = <<>>
  /\ UNCHANGED <<nextId, store>>

InitEmpty ==
  /\ Idle
  /\ nodes = FirstFolders @@ (3 :> LifeFile)
  /\ nextId = 4
  /\ store = {FirstPath}
  /\ bulk = 0
  /\ stats = [u \in Users |->
                IF u = LifeFile.owner THEN Recompute(FirstFolders @@ (3 :> LifeFile), u)
                ELSE NoStats]
  /\ last = NoRequest
  /\ budget = MaxEmptySteps

EmptyBegin == \E u \in Requesters : ShareStep /\ EmptyFind(u)

EmptyEnd == ShareStep /\ EmptyDeleteMany

EmptyTrashNode == \E u \in Requesters, f \in ReqIds : Tick /\ Trash(u, f)

EmptyRestoreNode == \E u \in Requesters, f \in ReqIds : Tick /\ NoClock /\ Restore(u, f)

NextEmpty ==
  \/ EmptyBegin
  \/ EmptyEnd
  \/ EmptyTrashNode
  \/ EmptyRestoreNode

SpecEmpty == InitEmpty /\ [][NextEmpty]_vars

\* C37: when trash or restore requests of the owner run between empty-trash's
\* read of the trashed set and its bulk delete, every file record the bulk
\* delete removes has its content-store object removed too, no file that is
\* non-trashed at the bulk delete has lost the object it had when empty-trash
\* began, and the count returned is the number of records removed.
C37_EmptyTrashConsistent ==
  [][(last'.op = "emptyTrash" /\ inflight # <<>> /\ inflight' = <<>>) =>
     LET removed == DOMAIN nodes \ DOMAIN nodes'
     IN  /\ \A i \in removed : ~nodes[i].isFolder => ~ExistsSync(store', nodes[i].path)
         /\ \A i \in DOMAIN nodes' :
              (/\ nodes'[i].owner = inflight[1].user
               /\ ~nodes'[i].isFolder
               /\ ~nodes'[i].inTrash
               /\ ExistsSync(inflight[1].storeBefore, nodes'[i].path))
              => ExistsSync(store', nodes'[i].path)
         /\ last'.deletedCount = Cardinality(removed)]_vars

\* C36: in every reachable state the sizes of an account's non-trashed file
\* nodes add up to at most the quota ceiling of 16106127360 bytes, whatever
\* sequence of upload, batch upload, copy and restore requests has run.
C36_UsageWithinCeiling ==
  \A u \in Users :
    LET files == {i \in DOMAIN nodes : /\ nodes[i].owner = u
                                       /\ ~nodes[i].isFolder
                                       /\ ~nodes[i].inTrash}
    IN  ~Greater(Plus(SumSizes(nodes, files), Times(MaxFileSize, BulkOf(u))), QuotaCeiling)

-----------------------------------------------------------------------------
(* Public links and their holder: share-link and revoke-link requests of    *)
(* the owner, and public downloads by a client that keeps every link it was *)
(* given.  script is the sequence of tokens of those links.                  *)

InitLinks ==
  /\ Idle
  /\ nodes = FirstFolders @@ (3 :> LifeFile)
  /\ nextId = 4
  /\ store = {FirstPath}
  /\ bulk = 0
  /\ stats = [u \in Users |->
                IF u = LifeFile.owner THEN Recompute(FirstFolders @@ (3 :> LifeFile), u)
                ELSE NoStats]
  /\ last = NoRequest
  /\ budget = MaxLinkSteps

LinkStep == budget > 0 /\ budget' = budget - 1 /\ NoClock /\ UNCHANGED <<bulk, inflight>>

Held == {script[k] : k \in 1..Len(script)}

LinkShare ==
  \E u \in Users, f \in ReqIds :
    /\ LinkStep
    /\ ShareLink(u, f)
    /\ script' = IF last'.result = "Link" /\ last'.token \notin Held
                 THEN Append(script, last'.token)
                 ELSE script

LinkRevoke == \E u \in Users, f \in ReqIds : LinkStep /\ RevokeLink(u, f) /\ UNCHANGED script

LinkVisit == \E t \in Held : LinkStep /\ PublicDownload(t) /\ UNCHANGED script

NextLinks ==
  \/ LinkShare
  \/ LinkRevoke
  \/ LinkVisit

SpecLinks == InitLinks /\ [][NextLinks]_vars

\* C39: a share-link request on a file that already has a link returns the
\* token the file has and changes no node; a revoke-link leaves no file that
\* the revoked token resolves to; a share-link that issues a token issues one
\* that differs from every token given out before; and a public download with
\* a token that is no file's current link is answered NotFound, also when the
\* file has a newer link.
C39_LinkLifecycle ==
  [][/\ (last'.op = "shareLink" /\ last'.result = "Link") =>
          IF nodes[last'.id].isPublic /\ nodes[last'.id].publicUrl # Null
          THEN last'.token = nodes[last'.id].publicUrl /\ nodes' = nodes
          ELSE /\ last'.token \notin Held
               /\ nodes'[last'.id].publicUrl = last'.token
     /\ (last'.op = "revokeLink" /\ last'.result = "Revoked") =>
          \A t \in Held : t = nodes[last'.id].publicUrl =>
            ~\E i \in DOMAIN nodes' : nodes'[i].publicUrl = t
     /\ (/\ last'.op = "publicDownload"
         /\ last'.token \in Held
         /\ ~\E i \in DOMAIN nodes : nodes[i].isPublic /\ nodes[i].publicUrl = last'.token)
        => last'.result = "NotFound"]_vars

\* The holder of a revoked link has tried it after the file got a new link.
C39_Witness ==
  /\ last.op = "publicDownload"
  /\ last.result = "NotFound"
  /\ last.token \in Held
  /\ \E i \in DOMAIN nodes :
       /\ nodes[i].isPublic
       /\ nodes[i].publicUrl \in Held
       /\ nodes[i].publicUrl # last.token

-----------------------------------------------------------------------------
(* DELETE /account (backend/routes/notifications.js) *)

Passwords == {"none", "wrong", "right"}

\* File.deleteMany({ owner: userId }).  The File documents carry their owner
\* in userId and have no field owner.  What the filter selects depends on the
\* query settings of the build: passed on as written it matches no document;
\* with the unknown field stripped it is empty and matches every document.
DeleteManyByOwner(ns, u) == {ns, Without(ns, DOMAIN ns)}

DeleteAccount(u, password) ==
  IF password = "none"
  THEN /\ last' = [op |-> "deleteAccount", result |-> "ValidationError", id |-> Null,
                   user |-> u]
       /\ UNCHANGED <<nodes, nextId, store, stats>>
  ELSE IF password # "right"
  THEN /\ last' = [op |-> "deleteAccount", result |-> "PasswordError", id |-> Null,
                   user |-> u]
       /\ UNCHANGED <<nodes, nextId, store, stats>>
  ELSE /\ nodes' \in DeleteManyByOwner(nodes, u)
       /\ last' = [op |-> "deleteAccount", result |-> "Deleted", id |-> Null, user |-> u]
       /\ UNCHANGED <<nextId, store, stats>>

\* Accounts: both accounts create and trash folders, and either may delete
\* itself, which ends the run.
InitAccount ==
  /\ Idle
  /\ nodes = FirstFolders @@ (3 :> LifeFile)
  /\ nextId = 4
  /\ store = {FirstPath}
  /\ bulk = 0
  /\ stats = [u \in Users |->
                IF u = LifeFile.owner THEN Recompute(FirstFolders @@ (3 :> LifeFile), u)
                ELSE NoStats]
  /\ last = NoRequest
  /\ budget = MaxAccountSteps

Registered == ~(last.op = "deleteAccount" /\ last.result = "Deleted")

AccountCreateFolder ==
  \E u \in Users, raw \in RawNames, p \in ParentInputs :
    Registered /\ Tick /\ NoClock /\ CreateFolder(u, raw, p)

AccountTrash == \E u \in Users, f \in ReqIds : Registered /\ Tick /\ Trash(u, f)

AccountDelete ==
  \E u \in Users, pw \in Passwords : Registered /\ Tick /\ NoClock /\ DeleteAccount(u, pw)

NextAccount ==
  \/ AccountCreateFolder
  \/ AccountTrash
  \/ AccountDelete

SpecAccount == InitAccount /\ [][NextAccount]_vars

\* C40: a successful delete-account request removes every node the deleted
\* account owns and no node of any other account.
C40_AccountNodesRemoved ==
  [][(last'.op = "deleteAccount" /\ last'.result = "Deleted") =>
     \A i \in DOMAIN nodes :
       IF nodes[i].owner = last'.user
       THEN i \notin DOMAIN nodes'
       ELSE i \in DOMAIN nodes' /\ nodes'[i] = nodes[i]]_vars
====
